---- MODULE Spec2Model ----
(***************************************************************************)
(* Model of the pypixxlib device layer of ratcave_vr: the persona          *)
(* (device) selection protocol of the PROPixx / DpxDevice classes and the  *)
(* DAC schedule engine reached through AnalogOut and the _libdpx wrappers. *)
(*                                                                         *)
(* Python strings are sequences of one-character strings, so that          *)
(* str.upper() and str.replace(" ", "") are computed, not assumed.         *)
(***************************************************************************)
EXTENDS Integers, Sequences, FiniteSets, TLC

(***************************************************************************)
(* Python string helpers                                                   *)
(***************************************************************************)
LowerChars == <<"a","b","c","d","e","f","g","h","i","j","k","l","m",
                "n","o","p","q","r","s","t","u","v","w","x","y","z">>

UpperChars == <<"A","B","C","D","E","F","G","H","I","J","K","L","M",
                "N","O","P","Q","R","S","T","U","V","W","X","Y","Z">>

\* the upper-case letter of every lower-case letter
UpperMap ==
    [c \in {LowerChars[i] : i \in 1..26} |->
        UpperChars[CHOOSE i \in 1..26 : LowerChars[i] = c]]

\* str.upper() on one character
UpperChar(c) == IF c \in DOMAIN UpperMap THEN UpperMap[c] ELSE c

\* str.upper()
Upper(s) == [i \in 1..Len(s) |-> UpperChar(s[i])]

\* the lower-case letter of every upper-case letter
LowerMap ==
    [c \in {UpperChars[i] : i \in 1..26} |->
        LowerChars[CHOOSE i \in 1..26 : UpperChars[i] = c]]

\* str.lower() on one character
LowerChar(c) == IF c \in DOMAIN LowerMap THEN LowerMap[c] ELSE c

\* str.lower()
Lower(s) == [i \in 1..Len(s) |-> LowerChar(s[i])]

\* str.replace(" ", "")
IsNotSpace(c) == c # " "

StripSpaces(s) == SelectSeq(s, IsNotSpace)

(***************************************************************************)
(* Device names as the source spells them                                  *)
(***************************************************************************)
N_PROPIXX      == <<"P","R","O","P","I","X","X">>
N_PROPIXX_CTRL == <<"P","R","O","P","I","X","X"," ","C","T","R","L">>
N_PROPixx      == <<"P","R","O","P","i","x","x">>
N_PROPixxCTRL  == <<"P","R","O","P","i","x","x","C","T","R","L">>

K_PROPIXX      == <<"P","R","O","P","I","X","X">>
K_PROPIXXCTRL  == <<"P","R","O","P","I","X","X","C","T","R","L">>
K_DATAPIXX     == <<"D","A","T","A","P","I","X","X">>

DEV_DATAPIXX    == 10
DEV_PROPIXXCTRL == 30
DEV_PROPIXX     == 40

(***************************************************************************)
(* Rate unit names: as callers spell them, and the keys of api_constants   *)
(***************************************************************************)
U_hz    == <<"h","z">>
U_video == <<"v","i","d","e","o">>
U_nano  == <<"n","a","n","o">>
U_Hz    == <<"H","z">>
U_khz   == <<"k","h","z">>

K_HZ    == <<"H","Z">>
K_VIDEO == <<"V","I","D","E","O">>
K_NANO  == <<"N","A","N","O">>

RATE_HZ    == 0
RATE_VIDEO == 16
RATE_NANO  == 32

\* channel references of the Adc and an audio mode: further keys of
\* api_constants
CHANREF_GND  == 0
CHANREF_DIFF == 1
CHANREF_REF0 == 2
CHANREF_REF1 == 3

K_GND  == <<"G", "N", "D">>
K_DIFF == <<"D", "I", "F", "F">>
K_REF0 == <<"R", "E", "F", "0">>
K_REF1 == <<"R", "E", "F", "1">>
K_LEFT == <<"L", "E", "F", "T">>

AUDIO_LEFT == 16

\* the keys of the api_constants dictionary that the model uses
ApiKeys == {K_HZ, K_VIDEO, K_NANO, K_DATAPIXX, K_PROPIXXCTRL, K_PROPIXX,
            K_GND, K_DIFF, K_REF0, K_REF1, K_LEFT}

\* api_constants[k]
api_constants(k) ==
    CASE k = K_HZ          -> RATE_HZ
      [] k = K_VIDEO       -> RATE_VIDEO
      [] k = K_NANO        -> RATE_NANO
      [] k = K_DATAPIXX    -> DEV_DATAPIXX
      [] k = K_PROPIXXCTRL -> DEV_PROPIXXCTRL
      [] k = K_PROPIXX     -> DEV_PROPIXX
      [] k = K_GND         -> CHANREF_GND
      [] k = K_DIFF        -> CHANREF_DIFF
      [] k = K_REF0        -> CHANREF_REF0
      [] k = K_REF1        -> CHANREF_REF1
      [] k = K_LEFT        -> AUDIO_LEFT

RateCodes == {RATE_HZ, RATE_VIDEO, RATE_NANO}

\* rate_constants with the VIDEO and NANO entries exchanged
rate_constants_swapped(code) ==
    CASE code = RATE_HZ    -> K_HZ
      [] code = RATE_VIDEO -> K_NANO
      [] code = RATE_NANO  -> K_VIDEO

\* rate_constants[code]
rate_constants(code) ==
    CASE code = RATE_HZ    -> K_HZ
      [] code = RATE_VIDEO -> K_VIDEO
      [] code = RATE_NANO  -> K_NANO

\* the devices of the model: a PROPixx and its controller
Personas == {DEV_PROPIXXCTRL, DEV_PROPIXX}

\* the device_type strings DpxDevice objects are constructed with
DeviceTypes == {N_PROPixxCTRL, N_PROPixx}

\* devsel code a device name resolves to
DevCode(name) == api_constants(StripSpaces(Upper(name)))

Threads == {1, 2}

VARIABLES
    selected,   \* libdpx: the device currently selected on the link
    detected,   \* libdpx: the devices found in the system
    pc,         \* per thread: position inside the method it is executing
    meth,       \* per thread: the method being executed
    own,        \* per thread: {persona the current call addresses}
    prev,       \* per thread: {persona selected when the call was entered}
    opSel,      \* per thread: {persona selected when its operate step ran}
    exitKind,   \* per thread: how the last call left
    enclosing   \* per thread: {persona its caller made current before the call}

selVars == <<selected, detected, pc, meth, own, prev, opSel, exitKind,
             enclosing>>

VARIABLES
    cache,      \* host register cache of the DAC schedule registers
    dirty,      \* registers written in the cache and not yet committed
    dev,        \* the device's own registers
    sstate,     \* ScheduleState of the DAC controller
    run,        \* the run in progress (or the last one): how it was started
    last,       \* the most recent host call: operation, arguments, outcome
    pending     \* registers the device holds until the next vertical sync

regVars == <<cache, dirty, dev, sstate, run, last, pending>>

VARIABLES
    dpxError,          \* libdpx: the error code of the last detected error
    objects,           \* the device objects constructed (by device_type)
    active,            \* the device objects whose `active' attribute is True
    xfer,              \* the last RAM transfer handed to the device
    data_unit,         \* Schedule.data_unit of a subsystem object
    vr_scenes,         \* RatcaveApp._vr_scenes
    current_vr_scene,  \* RatcaveApp._current_vr_scene
    arena              \* RatcaveApp: the arena's texture and orig_texture

auxVars == <<dpxError, objects, active, xfer, data_unit, vr_scenes,
             current_vr_scene, arena>>

schedVars == <<regVars, auxVars>>

vars == <<selected, detected, pc, meth, own, prev, opSel, exitKind,
          enclosing, cache, dirty, dev, sstate, run, last, pending,
          dpxError, objects, active, xfer, data_unit, vr_scenes,
          current_vr_scene, arena>>

(***************************************************************************)
(* libdpx device selection (global state of the DLL)                       *)
(***************************************************************************)
\* DPxDetectDevice(devsel): non-zero iff the device exists
DPxDetectDevice(name) == DevCode(name) \in detected

\* DPxSelectDevice(devsel): the device selected after the call; the selection
\* changes only if the device exists (the call then returns non-zero)
DPxSelectDevice(name, cur) ==
    IF DevCode(name) \in detected THEN DevCode(name) ELSE cur

\* PROPixx._selectValidDevice: the device selected after the call
selectValidDevice(cur) ==
    IF DPxDetectDevice(N_PROPIXX_CTRL)
    THEN DPxSelectDevice(N_PROPIXX_CTRL, cur)
    ELSE DPxSelectDevice(N_PROPIXX, cur)

\* the methods of PROPixx that select the PROPixx, operate and then call
\* _selectValidDevice (setCeilingMountMode, setDlpSequencerProgram, ...)
RestoringMethods == {"setCeilingMountMode", "setDlpSequencerProgram"}

PROPixxMethods == RestoringMethods \cup {"isSleepMode", "setLedIntensity"}

DpxDeviceMethods == {"updateRegisterCache"}

\* the methods that access registers without selecting any device first
\* (DpxDevice.getTime, AnalogOut.startSchedule, ...)
UnselectingMethods == {"getTime"}

\* a thread is between its select and the end of its call
InSection(t) ==
    /\ pc[t] \in {"selected", "operated"}
    /\ meth[t] \notin UnselectingMethods

\* a thread that has made no call and no selection so far
Untouched(t) ==
    /\ pc[t] = "idle"
    /\ exitKind[t] = "none"
    /\ prev[t] = {}
    /\ enclosing[t] = {}

SelInit ==
    /\ detected \in (SUBSET Personas) \ {{}}
    /\ selected \in detected
    /\ pc = [t \in Threads |-> "idle"]
    /\ meth = [t \in Threads |-> "none"]
    /\ own = [t \in Threads |-> {}]
    /\ prev = [t \in Threads |-> {}]
    /\ opSel = [t \in Threads |-> {}]
    /\ exitKind = [t \in Threads |-> "none"]
    /\ enclosing = [t \in Threads |-> {}]

\* DpxDevice.setActive of an object of type d: the caller makes d current
SetActive(t, d) ==
    /\ pc[t] = "idle"
    /\ selected' = DPxSelectDevice(d, selected)
    /\ enclosing' = [enclosing EXCEPT ![t] = {DPxSelectDevice(d, selected)}]
    /\ prev' = [prev EXCEPT ![t] = {}]
    /\ exitKind' = [exitKind EXCEPT ![t] = "none"]
    /\ UNCHANGED <<detected, pc, meth, own, opSel>>
    /\ UNCHANGED schedVars

\* a thread enters a PROPixx method
CallPROPixx(t, m) ==
    /\ pc[t] = "idle"
    /\ m \in PROPixxMethods
    /\ pc' = [pc EXCEPT ![t] = "call"]
    /\ meth' = [meth EXCEPT ![t] = m]
    /\ own' = [own EXCEPT ![t] = {DEV_PROPIXX}]
    /\ prev' = [prev EXCEPT ![t] = {selected}]
    /\ exitKind' = [exitKind EXCEPT ![t] = "none"]
    /\ UNCHANGED <<selected, detected, opSel, enclosing>>
    /\ UNCHANGED schedVars

\* a thread enters DpxDevice.updateRegisterCache of an object of type d
CallDpxDevice(t, d) ==
    /\ pc[t] = "idle"
    /\ pc' = [pc EXCEPT ![t] = "call"]
    /\ meth' = [meth EXCEPT ![t] = "updateRegisterCache"]
    /\ own' = [own EXCEPT ![t] = {DevCode(d)}]
    /\ prev' = [prev EXCEPT ![t] = {selected}]
    /\ exitKind' = [exitKind EXCEPT ![t] = "none"]
    /\ UNCHANGED <<selected, detected, opSel, enclosing>>
    /\ UNCHANGED schedVars

\* a thread enters DpxDevice.getTime of an object of type d: the method has
\* no DPxSelectDevice, its first statement is the register access
getTime(t, d) ==
    /\ pc[t] = "idle"
    /\ pc' = [pc EXCEPT ![t] = "selected"]
    /\ meth' = [meth EXCEPT ![t] = "getTime"]
    /\ own' = [own EXCEPT ![t] = {DevCode(d)}]
    /\ prev' = [prev EXCEPT ![t] = {selected}]
    /\ exitKind' = [exitKind EXCEPT ![t] = "none"]
    /\ UNCHANGED <<selected, detected, opSel, enclosing>>
    /\ UNCHANGED schedVars

\* the call of thread t is over
Leave(t, kind) ==
    /\ pc' = [pc EXCEPT ![t] = "idle"]
    /\ meth' = [meth EXCEPT ![t] = "none"]
    /\ own' = [own EXCEPT ![t] = {}]
    /\ opSel' = [opSel EXCEPT ![t] = {}]
    /\ exitKind' = [exitKind EXCEPT ![t] = kind]
    /\ UNCHANGED <<detected, prev, enclosing>>

\* setLedIntensity with a key that is not in intensity_dict: the except
\* branch prints and returns before any device is selected
LedBadIntensity(t) ==
    /\ pc[t] = "call"
    /\ meth[t] = "setLedIntensity"
    /\ Leave(t, "error")
    /\ UNCHANGED selected
    /\ UNCHANGED schedVars

\* first statement of every method: DPxSelectDevice(<own device>)
SelectOwn(t) ==
    /\ pc[t] = "call"
    /\ LET name == IF meth[t] \in PROPixxMethods THEN N_PROPIXX
                   ELSE CHOOSE d \in DeviceTypes : {DevCode(d)} = own[t]
       IN selected' = DPxSelectDevice(name, selected)
    /\ pc' = [pc EXCEPT ![t] = "selected"]
    /\ UNCHANGED <<detected, meth, own, prev, opSel, exitKind, enclosing>>
    /\ UNCHANGED schedVars

\* the register access of the method (DPxEnablePPxCeilingMount,
\* DPxSetPPxDlpSeqPgrm, DPxIsPPxAwake, DPxSpiRead, DPxUpdateRegCache ...):
\* it acts on whichever device is selected at that moment
Operate(t) ==
    /\ pc[t] = "selected"
    /\ opSel' = [opSel EXCEPT ![t] = {selected}]
    /\ pc' = [pc EXCEPT ![t] = "operated"]
    /\ UNCHANGED <<selected, detected, meth, own, prev, exitKind, enclosing>>
    /\ UNCHANGED schedVars

\* last statement of the restoring methods: self._selectValidDevice()
RestoreValid(t) ==
    /\ pc[t] = "operated"
    /\ meth[t] \in RestoringMethods
    /\ selected' = selectValidDevice(selected)
    /\ Leave(t, "restored")
    /\ UNCHANGED schedVars

\* isSleepMode, setLedIntensity and updateRegisterCache return after their
\* register access without selecting any device again
ReturnNoRestore(t) ==
    /\ pc[t] = "operated"
    /\ meth[t] \in {"isSleepMode", "setLedIntensity", "updateRegisterCache"}
                \cup UnselectingMethods
    /\ Leave(t, "return")
    /\ UNCHANGED selected
    /\ UNCHANGED schedVars

\* setLedIntensity: DPxSpiRead returned nothing, ValueError is raised
LedRaise(t) ==
    /\ pc[t] = "operated"
    /\ meth[t] = "setLedIntensity"
    /\ Leave(t, "raise")
    /\ UNCHANGED selected
    /\ UNCHANGED schedVars

(***************************************************************************)
(* DAC schedule engine.  The bodies of the DPx* functions live in the      *)
(* libdpx binary; the controller operations below (set/get on the register *)
(* cache, setBase, setSize, setBuffer, setRate, configure, start, stop,    *)
(* isRunning, commit, refresh, the device tick) follow the component       *)
(* design of the specification.  The wrappers above them follow the        *)
(* Python source.                                                          *)
(***************************************************************************)
\* bounds of the model: the RAM of the device in bytes, the largest value of
\* the count register, the ticks of a run that are counted
RamSize  == 4
MaxCount == 2
MaxTicks == 3

\* rate domain of the Dac subsystem
DacMaxHz   == 1000000
DacMinNano == 1000

\* rate domain of the Adc subsystem
AdcMaxHz   == 200000
AdcMinNano == 5000

\* the Adc: channels that can be buffered, and the channel references
DPX_ADC_NCHANS == 16
RefKeys == {K_GND, K_DIFF, K_REF0, K_REF1}

\* api_constants, the channel references
ref_constants(k) ==
    CASE k = K_GND  -> CHANREF_GND
      [] k = K_DIFF -> CHANREF_DIFF
      [] k = K_REF0 -> CHANREF_REF0
      [] k = K_REF1 -> CHANREF_REF1

BufferedChannels == 0..(DPX_ADC_NCHANS - 1)

\* the Dac: its channels, the number of channels setChannelRamBuffering
\* loops over, and the channel argument left at its default
DPX_DAC_NCHANS == 4
all_channels   == 16
None           == -1

DacChannels == 0..(DPX_DAC_NCHANS - 1)

Odd(n) == n % 2 = 1

ConfigRegs == {"base", "size", "cursor", "onset", "rate", "unit", "count",
               "countdown"}

InitRegs == [base |-> 0, size |-> 0, cursor |-> 0, onset |-> 0, rate |-> 0,
             unit |-> RATE_HZ, count |-> 0, countdown |-> FALSE,
             running |-> FALSE,
             adcrate |-> 0, adcunit |-> RATE_HZ,
             mask |-> {},
             audbase |-> 0, micbase |-> 0, micsize |-> 0,
             codecleft |-> <<0, 0>>, codecright |-> <<0, 0>>,
             regfile |-> [a \in {0, 2} |-> 0],
             chanref |-> [ch \in BufferedChannels |-> CHANREF_GND]]

\* RegisterCache.set: write registers in the cache and mark them dirty
set(c, regs) == [r \in DOMAIN c |-> IF r \in DOMAIN regs THEN regs[r] ELSE c[r]]

\* RegisterCache.get: from the cache, not from the device
get(reg) == cache[reg]

\* RingBufferDescriptor invariant: the buffer is set, lies inside the RAM and
\* holds the cursor
ValidDescriptor(c) ==
    /\ c.size > 0
    /\ ~Odd(c.base) /\ ~Odd(c.size)
    /\ c.base + c.size <= RamSize
    /\ c.base <= c.cursor /\ c.cursor < c.base + c.size

\* RateUnit bounds of the Dac
RateInDomain(value, unit) ==
    CASE unit = RATE_HZ    -> value <= DacMaxHz
      [] unit = RATE_VIDEO -> value <= DacMaxHz
      [] unit = RATE_NANO  -> value >= DacMinNano
      [] OTHER             -> FALSE

\* RateUnit bounds of the Adc
AdcRateInDomain(value, unit) ==
    CASE unit = RATE_HZ    -> value <= AdcMaxHz
      [] unit = RATE_VIDEO -> value <= AdcMaxHz
      [] unit = RATE_NANO  -> value >= AdcMinNano
      [] OTHER             -> FALSE

\* setBase(addr) on a cache c: the address is checked with the size c holds
setBaseErrIn(c, addr) ==
    IF Odd(addr) \/ addr + c.size > RamSize THEN "InvalidAddress"
    ELSE IF sstate = "Running" THEN "InvalidState"
    ELSE "ok"

\* setBase(addr)
setBaseErr(addr) == setBaseErrIn(cache, addr)

\* setSize(bytes) on a cache c: the size is checked with the base c holds
setSizeErrIn(c, bytes) ==
    IF Odd(bytes) \/ bytes = 0 \/ c.base + bytes > RamSize
    THEN "InvalidSize"
    ELSE IF sstate = "Running" THEN "InvalidState"
    ELSE "ok"

\* setSize(bytes)
setSizeErr(bytes) == setSizeErrIn(cache, bytes)

\* setBase(addr) followed by setSize(bytes): whether both succeed, and the
\* cache they leave
afterSetBase(c, addr) ==
    IF setBaseErrIn(c, addr) = "ok" THEN set(c, [base |-> addr]) ELSE c

afterSetSize(c, bytes) ==
    IF setSizeErrIn(c, bytes) = "ok" THEN set(c, [size |-> bytes]) ELSE c

BaseThenSizeOk(c, addr, bytes) ==
    /\ setBaseErrIn(c, addr) = "ok"
    /\ setSizeErrIn(afterSetBase(c, addr), bytes) = "ok"

BaseThenSize(c, addr, bytes) == afterSetSize(afterSetBase(c, addr), bytes)

\* setBuffer(addr, bytes): base and size validated and written together
setBufferErr(addr, bytes) ==
    IF Odd(addr) THEN "InvalidAddress"
    ELSE IF Odd(bytes) \/ bytes = 0 \/ addr + bytes > RamSize
    THEN "InvalidSize"
    ELSE IF sstate = "Running" THEN "InvalidState"
    ELSE "ok"

\* write of the cursor (the read address of the Dac): even and not beyond the
\* RAM; it is not compared with the window of the buffer
setReadErr(addr) ==
    IF Odd(addr) \/ addr > RamSize THEN "InvalidAddress"
    ELSE IF sstate = "Running" THEN "InvalidState"
    ELSE "ok"

\* base + size lies inside the RAM
InsideRam(c) == c.base + c.size <= RamSize

\* the cursor lies inside the window of the buffer
InWindow(c) == c.base <= c.cursor /\ c.cursor < c.base + c.size

\* setChannelReference(channel, ref): the channel is one that can be buffered
setChanRefErr(channel) ==
    IF channel \in BufferedChannels THEN "ok" ELSE "InvalidChannel"

\* enableChannel(ch) / disableChannel(ch): the channel is one of the Dac
maskErr(channel) ==
    IF channel \in DacChannels THEN "ok" ELSE "InvalidChannel"

\* base address of the audio-out and of the microphone buffer: even and
\* inside the RAM
audBaseErr(addr) ==
    IF Odd(addr) \/ addr > RamSize THEN "InvalidAddress" ELSE "ok"

\* size of the microphone buffer: even and inside the RAM
micSizeErr(bytes) ==
    IF Odd(bytes) \/ bytes > RamSize THEN "InvalidSize" ELSE "ok"

\* setRate(value, unit)
setRateErr(value, unit) ==
    IF ~RateInDomain(value, unit) THEN "OutOfRange"
    ELSE IF sstate = "Running" THEN "InvalidState"
    ELSE "ok"

\* getRate(): the pair held in the register cache
getRate == <<get("rate"), get("unit")>>

\* setRate(value, unit) of the Adc, whose schedule is never started here
setAdcRateErr(value, unit) ==
    IF ~AdcRateInDomain(value, unit) THEN "OutOfRange" ELSE "ok"

\* set of one ScheduleConfig register (onset, count, countdown)
setConfigErr == IF sstate = "Running" THEN "InvalidState" ELSE "ok"

\* configure(onset, rate, unit, count, countdown)
configureErr(onset, value, unit, count, countdown) ==
    IF ~RateInDomain(value, unit) THEN "OutOfRange"
    ELSE IF sstate = "Running" THEN "InvalidState"
    ELSE "ok"

\* start(): needs a valid RingBufferDescriptor
startErr ==
    IF ~ValidDescriptor(cache) THEN "NotConfigured"
    ELSE IF sstate = "Running" THEN "InvalidState"
    ELSE "ok"

\* commit: the dirty registers go to the device
commit(d) == [r \in DOMAIN d |-> IF r \in dirty THEN cache[r] ELSE d[r]]

\* linkWrite: the registers the link carries reach the device, the others
\* keep the value the device has
linkWrite(d, accepted) ==
    [r \in DOMAIN d |-> IF r \in accepted THEN cache[r] ELSE d[r]]

\* isRunning(): the live status register of the device
isRunning == dev.running

\* a schedule that counts down whenever the count down mode is enabled
FreeRun_strict(d) == ~d.countdown

\* the schedule free-runs unless it counts down from a positive count
FreeRun(d) == ~d.countdown \/ d.count = 0

\* RingBufferDescriptor: the cursor advances by one sample and wraps to base
Advance(d) ==
    IF d.cursor + 2 >= d.base + d.size THEN d.base ELSE d.cursor + 2

\* the descriptor and configuration registers the device does not count in
StableConfig(c) == <<c.base, c.size, c.onset, c.rate, c.unit, c.countdown>>

\* the descriptor and configuration values of the claim: those and the count
FullConfig(c) == <<c.base, c.size, c.onset, c.rate, c.unit, c.count,
                   c.countdown>>

(***************************************************************************)
(* The _libdpx wrappers and the AnalogOut methods                          *)
(***************************************************************************)
\* DPxSetDacSchedRate / DPxSetDacSched: api_constants[unit.upper()]
UnitKey(unit) == Upper(unit)

\* DPxGetDacSchedRate(): (rate, rate_constants[units])
DPxGetDacSchedRate == <<getRate[1], rate_constants(getRate[2])>>

\* AnalogOut.getScheduleRate()
getScheduleRate == DPxGetDacSchedRate[1]

\* AnalogOut.getScheduleUnit()
getScheduleUnit == DPxGetDacSchedRate[2]

\* getScheduleCount reading the count register of the device
getScheduleCount_live == dev.count

\* AnalogOut.getScheduleCount() -> DPxGetDacSchedCount
getScheduleCount == get("count")

\* AnalogOut.getReadAddress() -> DPxGetDacBuffReadAddr: cursor(), the live
\* cursor of the device
getReadAddress == dev.cursor

\* DPxIsDacSchedRunning answering from the cached flag
DPxIsDacSchedRunning_cached == IF cache.running THEN 1 ELSE 0

\* DPxIsDacSchedRunning()
DPxIsDacSchedRunning == IF isRunning THEN 1 ELSE 0

\* isScheduleRunning with the comparison turned around
isScheduleRunning_inverted ==
    IF (IF isRunning THEN 1 ELSE 0) = 0 THEN TRUE ELSE FALSE

\* AnalogOut.isScheduleRunning()
isScheduleRunning == IF DPxIsDacSchedRunning = 0 THEN FALSE ELSE TRUE

\* the record of a host call: the method, its outcome, and whether the call
\* before it was the same method
Called(op, err) == [op |-> op, err |-> err, rep |-> last.op = op]

\* error codes of the library
DPX_SUCCESS == 0
DPX_ERR_USB_NO_DATAPIXX == -1000
DPX_ERR_DAC_SCHED_TOO_FAST == -1514

DPX_ERR_SETREG16_DATA_RANGE == -1202

\* err_return: the names of the error codes
err_return(code) ==
    CASE code = DPX_SUCCESS                -> "DPX_SUCCESS"
      [] code = DPX_ERR_USB_NO_DATAPIXX    -> "DPX_ERR_USB_NO_DATAPIXX"
      [] code = DPX_ERR_DAC_SCHED_TOO_FAST -> "DPX_ERR_DAC_SCHED_TOO_FAST"
      [] code = DPX_ERR_SETREG16_DATA_RANGE
            -> "DPX_ERR_SETREG16_DATA_RANGE"
      [] OTHER                             -> "Unknown Error"

\* no library error, no device object, no RAM transfer; the class
\* attribute Schedule.data_unit; a RatcaveApp with no virtual scene
InitAux ==
    /\ dpxError = DPX_SUCCESS
    /\ objects = {}
    /\ active = {}
    /\ xfer = [op |-> "none", address |-> 0, words |-> 0, bytes |-> 0]
    /\ data_unit = <<"D", "e", "c">>
    /\ vr_scenes = {}
    /\ current_vr_scene = None
    /\ arena = [texture |-> "file", orig_texture |-> "None"]

InitSched ==
    /\ cache = InitRegs
    /\ dirty = {}
    /\ dev = InitRegs
    /\ sstate = "Idle"
    /\ run = [free |-> TRUE, n |-> 0, ticks |-> 0, stopped |-> TRUE]
    /\ last = [op |-> "none", err |-> "ok", rep |-> FALSE]
    /\ pending = [regs |-> {}, image |-> InitRegs]
    /\ InitAux

\* setBaseAddress writing the base without looking at the size
setBaseAddress_unchecked(address) ==
    /\ last' = Called("setBaseAddress", "ok")
    /\ cache' = set(cache, [base |-> address])
    /\ dirty' = dirty \cup {"base"}
    /\ UNCHANGED <<dev, sstate, run>>
    /\ UNCHANGED pending
    /\ UNCHANGED selVars
    /\ UNCHANGED auxVars

\* AnalogOut.setBaseAddress(address) -> DPxSetDacBuffBaseAddr
setBaseAddress(address) ==
    /\ last' = Called("setBaseAddress", setBaseErr(address))
    /\ IF setBaseErr(address) = "ok"
       THEN /\ cache' = set(cache, [base |-> address])
            /\ dirty' = dirty \cup {"base"}
       ELSE UNCHANGED <<cache, dirty>>
    /\ UNCHANGED <<dev, sstate, run>>
    /\ UNCHANGED pending
    /\ UNCHANGED selVars
    /\ UNCHANGED auxVars

\* AnalogOut.setReadAddress(address) -> DPxSetDacBuffReadAddr
setReadAddress(address) ==
    /\ last' = Called("setReadAddress", setReadErr(address))
    /\ IF setReadErr(address) = "ok"
       THEN /\ cache' = set(cache, [cursor |-> address])
            /\ dirty' = dirty \cup {"cursor"}
       ELSE UNCHANGED <<cache, dirty>>
    /\ UNCHANGED <<dev, sstate, run>>
    /\ UNCHANGED pending
    /\ UNCHANGED selVars
    /\ UNCHANGED auxVars

\* setChannelReference with the channel range of getChannelValue (0 to 17)
setChannelReference_wide(channel, reference) ==
    /\ Upper(reference) \in RefKeys
    /\ last' = Called("setChannelReference",
                      IF channel \in 0..(DPX_ADC_NCHANS + 1)
                      THEN "ok" ELSE "InvalidChannel")
    /\ UNCHANGED <<cache, dirty, dev, sstate, run>>
    /\ UNCHANGED pending
    /\ UNCHANGED selVars
    /\ UNCHANGED auxVars

\* AnalogIn.setChannelReference(channel, reference) -> DPxSetAdcBuffChanRef
setChannelReference(channel, reference) ==
    /\ IF Upper(reference) \notin RefKeys
       THEN /\ last' = Called("setChannelReference", "KeyError")
            /\ UNCHANGED <<cache, dirty>>
       ELSE /\ last' = Called("setChannelReference", setChanRefErr(channel))
            /\ IF setChanRefErr(channel) = "ok"
               THEN /\ cache' = set(cache,
                         [chanref |-> [cache.chanref EXCEPT ![channel] =
                                          ref_constants(Upper(reference))]])
                    /\ dirty' = dirty \cup {"chanref"}
               ELSE UNCHANGED <<cache, dirty>>
    /\ UNCHANGED <<dev, sstate, run>>
    /\ UNCHANGED pending
    /\ UNCHANGED selVars
    /\ UNCHANGED auxVars

\* AnalogIn.getChannelReference(channel) -> DPxGetAdcBuffChanRef
getChannelReference(channel) == get("chanref")[channel]

\* DPxEnableDacBuffChan(channel): the mask after the call
DPxEnableDacBuffChan(m, channel) ==
    IF maskErr(channel) = "ok" THEN m \cup {channel} ELSE m

\* DPxDisableDacBuffChan(channel): the mask after the call
DPxDisableDacBuffChan(m, channel) ==
    IF maskErr(channel) = "ok" THEN m \ {channel} ELSE m

\* setChannelRamBuffering with a Dac that takes the 16 channels of the loop
setChannelRamBuffering_sixteen(enable, channel) ==
    LET m == IF channel = None
             THEN (IF enable THEN 0..(all_channels - 1) ELSE {})
             ELSE IF channel \notin 0..(all_channels - 1) THEN cache.mask
             ELSE IF enable THEN cache.mask \cup {channel}
             ELSE cache.mask \ {channel}
    IN
    /\ last' = Called("setChannelRamBuffering",
                      IF channel = None \/ channel \in 0..(all_channels - 1)
                      THEN "ok" ELSE "InvalidChannel")
    /\ cache' = set(cache, [mask |-> m])
    /\ dirty' = IF m = cache.mask THEN dirty ELSE dirty \cup {"mask"}
    /\ UNCHANGED <<dev, sstate, run>>
    /\ UNCHANGED pending
    /\ UNCHANGED selVars
    /\ UNCHANGED auxVars

\* AnalogOut.setChannelRamBuffering(enable, channel=None): with no channel
\* given, enabling calls DPxEnableDacBuffChan for the channels 0 to 15 one
\* after the other and disabling calls DPxDisableDacBuffAllChans; the error
\* is the one the last call of the loop leaves
setChannelRamBuffering(enable, channel) ==
    LET m == IF enable
             THEN (IF channel = None
                   THEN {i \in 0..(all_channels - 1) :
                            i \in cache.mask \/ maskErr(i) = "ok"}
                   ELSE DPxEnableDacBuffChan(cache.mask, channel))
             ELSE (IF channel = None
                   THEN {}
                   ELSE DPxDisableDacBuffChan(cache.mask, channel))
        err == IF channel = None
               THEN (IF enable THEN maskErr(all_channels - 1) ELSE "ok")
               ELSE maskErr(channel)
    IN
    /\ last' = Called("setChannelRamBuffering", err)
    /\ cache' = set(cache, [mask |-> m])
    /\ dirty' = IF m = cache.mask THEN dirty ELSE dirty \cup {"mask"}
    /\ UNCHANGED <<dev, sstate, run>>
    /\ UNCHANGED pending
    /\ UNCHANGED selVars
    /\ UNCHANGED auxVars

\* AnalogOut.isChannelRamBuffering(channel) -> DPxIsDacBuffChan
isChannelRamBuffering(channel) == channel \in get("mask")

\* DPxSetDacBuff leaving the read address where it is
DPxSetDacBuff_keepcursor(buffAddr, buffSize) ==
    /\ last' = Called("DPxSetDacBuff", setBufferErr(buffAddr, buffSize))
    /\ IF setBufferErr(buffAddr, buffSize) = "ok"
       THEN /\ cache' = set(cache, [base |-> buffAddr, size |-> buffSize])
            /\ dirty' = dirty \cup {"base", "size"}
       ELSE UNCHANGED <<cache, dirty>>
    /\ UNCHANGED <<dev, sstate, run>>
    /\ UNCHANGED pending
    /\ UNCHANGED selVars
    /\ UNCHANGED auxVars

\* AudioIn.setBaseAddress(address) -> DPxSetAudBuffBaseAddr(address)
AudioIn_setBaseAddress(address) ==
    /\ last' = Called("AudioIn.setBaseAddress", audBaseErr(address))
    /\ IF audBaseErr(address) = "ok"
       THEN /\ cache' = set(cache, [audbase |-> address])
            /\ dirty' = dirty \cup {"audbase"}
       ELSE UNCHANGED <<cache, dirty>>
    /\ UNCHANGED <<dev, sstate, run>>
    /\ UNCHANGED pending
    /\ UNCHANGED selVars
    /\ UNCHANGED auxVars

\* AudioIn.getBaseAddress() -> DPxGetMicBuffBaseAddr()
AudioIn_getBaseAddress == get("micbase")

\* AudioIn.setBufferSize(buffer_size) -> DPxSetMicBuffSize(buffer_size)
AudioIn_setBufferSize(buffer_size) ==
    /\ last' = Called("AudioIn.setBufferSize", micSizeErr(buffer_size))
    /\ IF micSizeErr(buffer_size) = "ok"
       THEN /\ cache' = set(cache, [micsize |-> buffer_size])
            /\ dirty' = dirty \cup {"micsize"}
       ELSE UNCHANGED <<cache, dirty>>
    /\ UNCHANGED <<dev, sstate, run>>
    /\ UNCHANGED pending
    /\ UNCHANGED selVars
    /\ UNCHANGED auxVars

\* AudioOut.setBaseAddressLeft(value) -> DPxSetAudBuffBaseAddr(value)
setBaseAddressLeft(value) ==
    /\ last' = Called("setBaseAddressLeft", audBaseErr(value))
    /\ IF audBaseErr(value) = "ok"
       THEN /\ cache' = set(cache, [audbase |-> value])
            /\ dirty' = dirty \cup {"audbase"}
       ELSE UNCHANGED <<cache, dirty>>
    /\ UNCHANGED <<dev, sstate, run>>
    /\ UNCHANGED pending
    /\ UNCHANGED selVars
    /\ UNCHANGED auxVars

\* AudioOut.getBaseAddressLeft() -> DPxGetAudBuffBaseAddr()
getBaseAddressLeft == get("audbase")

\* AnalogOut.setBufferSize(buffer_size) -> DPxSetDacBuffSize
setBufferSize(buffer_size) ==
    /\ last' = Called("setBufferSize", setSizeErr(buffer_size))
    /\ IF setSizeErr(buffer_size) = "ok"
       THEN /\ cache' = set(cache, [size |-> buffer_size])
            /\ dirty' = dirty \cup {"size"}
       ELSE UNCHANGED <<cache, dirty>>
    /\ UNCHANGED <<dev, sstate, run>>
    /\ UNCHANGED pending
    /\ UNCHANGED selVars
    /\ UNCHANGED auxVars

\* DPxSetDacBuff writing the registers before the arguments are validated
DPxSetDacBuff_unchecked(buffAddr, buffSize) ==
    /\ last' = Called("DPxSetDacBuff", setBufferErr(buffAddr, buffSize))
    /\ cache' = set(cache, [base |-> buffAddr, cursor |-> buffAddr,
                             size |-> buffSize])
    /\ dirty' = dirty \cup {"base", "cursor", "size"}
    /\ UNCHANGED <<dev, sstate, run>>
    /\ UNCHANGED pending
    /\ UNCHANGED selVars
    /\ UNCHANGED auxVars

\* DPxSetDacBuff writing the base and the read address and leaving the size
\* for later
DPxSetDacBuff_baseonly(buffAddr, buffSize) ==
    /\ last' = Called("DPxSetDacBuff", setBufferErr(buffAddr, buffSize))
    /\ IF setBufferErr(buffAddr, buffSize) = "ok"
       THEN /\ cache' = set(cache, [base |-> buffAddr, cursor |-> buffAddr])
            /\ dirty' = dirty \cup {"base", "cursor"}
       ELSE UNCHANGED <<cache, dirty>>
    /\ UNCHANGED <<dev, sstate, run>>
    /\ UNCHANGED pending
    /\ UNCHANGED selVars
    /\ UNCHANGED auxVars

\* DPxSetDacBuff(buffAddr, buffSize): base, read address and size
DPxSetDacBuff(buffAddr, buffSize) ==
    /\ last' = Called("DPxSetDacBuff", setBufferErr(buffAddr, buffSize))
    /\ IF setBufferErr(buffAddr, buffSize) = "ok"
       THEN /\ cache' = set(cache, [base |-> buffAddr, cursor |-> buffAddr,
                                    size |-> buffSize])
            /\ dirty' = dirty \cup {"base", "cursor", "size"}
       ELSE UNCHANGED <<cache, dirty>>
    /\ UNCHANGED <<dev, sstate, run>>
    /\ UNCHANGED pending
    /\ UNCHANGED selVars
    /\ UNCHANGED auxVars

\* setScheduleRate writing any rate
setScheduleRate_anyrate(rate, unit) ==
    /\ IF UnitKey(unit) \notin ApiKeys
       THEN /\ last' = Called("setScheduleRate", "KeyError")
            /\ UNCHANGED <<cache, dirty>>
       ELSE /\ last' = Called("setScheduleRate",
                              IF sstate = "Running" THEN "InvalidState" ELSE "ok")
            /\ IF sstate # "Running"
               THEN /\ cache' = set(cache, [rate |-> rate,
                                            unit |-> api_constants(UnitKey(unit))])
                    /\ dirty' = dirty \cup {"rate", "unit"}
               ELSE UNCHANGED <<cache, dirty>>
    /\ UNCHANGED <<dev, sstate, run>>
    /\ UNCHANGED pending
    /\ UNCHANGED selVars
    /\ UNCHANGED auxVars

\* AnalogOut.setScheduleRate(rate, unit) -> DPxSetDacSchedRate(rate, unit)
setScheduleRate(rate, unit) ==
    /\ IF UnitKey(unit) \notin ApiKeys
       THEN /\ last' = Called("setScheduleRate", "KeyError")
            /\ UNCHANGED <<cache, dirty>>
       ELSE LET code == api_constants(UnitKey(unit)) IN
            /\ last' = Called("setScheduleRate", setRateErr(rate, code))
            /\ IF setRateErr(rate, code) = "ok"
               THEN /\ cache' = set(cache, [rate |-> rate, unit |-> code])
                    /\ dirty' = dirty \cup {"rate", "unit"}
               ELSE UNCHANGED <<cache, dirty>>
    /\ UNCHANGED <<dev, sstate, run>>
    /\ UNCHANGED pending
    /\ UNCHANGED selVars
    /\ UNCHANGED auxVars

\* AnalogIn.setScheduleRate(rate, unit) -> DPxSetAdcSchedRate(rate, unit)
DPxSetAdcSchedRate(rate, unit) ==
    /\ IF UnitKey(unit) \notin ApiKeys
       THEN /\ last' = Called("DPxSetAdcSchedRate", "KeyError")
            /\ UNCHANGED <<cache, dirty>>
       ELSE LET code == api_constants(UnitKey(unit)) IN
            /\ last' = Called("DPxSetAdcSchedRate", setAdcRateErr(rate, code))
            /\ IF setAdcRateErr(rate, code) = "ok"
               THEN /\ cache' = set(cache, [adcrate |-> rate, adcunit |-> code])
                    /\ dirty' = dirty \cup {"adcrate", "adcunit"}
               ELSE UNCHANGED <<cache, dirty>>
    /\ UNCHANGED <<dev, sstate, run>>
    /\ UNCHANGED pending
    /\ UNCHANGED selVars
    /\ UNCHANGED auxVars

\* AnalogOut.setScheduleOnset(onset) -> DPxSetDacSchedOnset
setScheduleOnset(onset) ==
    /\ last' = Called("setScheduleOnset", setConfigErr)
    /\ IF setConfigErr = "ok"
       THEN /\ cache' = set(cache, [onset |-> onset])
            /\ dirty' = dirty \cup {"onset"}
       ELSE UNCHANGED <<cache, dirty>>
    /\ UNCHANGED <<dev, sstate, run>>
    /\ UNCHANGED pending
    /\ UNCHANGED selVars
    /\ UNCHANGED auxVars

\* AnalogOut.setScheduleCount(count) -> DPxSetDacSchedCount
setScheduleCount(count) ==
    /\ last' = Called("setScheduleCount", setConfigErr)
    /\ IF setConfigErr = "ok"
       THEN /\ cache' = set(cache, [count |-> count])
            /\ dirty' = dirty \cup {"count"}
       ELSE UNCHANGED <<cache, dirty>>
    /\ UNCHANGED <<dev, sstate, run>>
    /\ UNCHANGED pending
    /\ UNCHANGED selVars
    /\ UNCHANGED auxVars

\* setScheduleCountDown written into the cache in every state of the schedule
setScheduleCountDown_anystate(enable) ==
    /\ last' = Called("setScheduleCountDown", "ok")
    /\ cache' = set(cache, [countdown |-> (enable = TRUE)])
    /\ dirty' = dirty \cup {"countdown"}
    /\ UNCHANGED <<dev, sstate, run>>
    /\ UNCHANGED pending
    /\ UNCHANGED selVars
    /\ UNCHANGED auxVars

\* AnalogOut.setScheduleCountDown(enable) ->
\* DPxEnableDacSchedCountdown / DPxDisableDacSchedCountdown
setScheduleCountDown(enable) ==
    /\ last' = Called("setScheduleCountDown", setConfigErr)
    /\ IF setConfigErr = "ok"
       THEN /\ cache' = set(cache, [countdown |-> (enable = TRUE)])
            /\ dirty' = dirty \cup {"countdown"}
       ELSE UNCHANGED <<cache, dirty>>
    /\ UNCHANGED <<dev, sstate, run>>
    /\ UNCHANGED pending
    /\ UNCHANGED selVars
    /\ UNCHANGED auxVars

\* the three setters one after the other, DPxSetDacSchedOnset,
\* DPxSetDacSchedRate and DPxSetDacSchedCount: whether all three are
\* accepted, and the cache they leave
OnsetRateCountOk(value, code) ==
    /\ setConfigErr = "ok"
    /\ setRateErr(value, code) = "ok"

OnsetRateCount(c, onset, value, code, count) ==
    set(set(set(c, [onset |-> onset]), [rate |-> value, unit |-> code]),
        [count |-> count])

\* DPxSetDacSched leaving the onset as it is
DPxSetDacSched_keeponset(onset, rateValue, rateUnits, count) ==
    /\ IF UnitKey(rateUnits) \notin ApiKeys
       THEN /\ last' = Called("DPxSetDacSched", "KeyError")
            /\ UNCHANGED <<cache, dirty, sstate>>
       ELSE LET code == api_constants(UnitKey(rateUnits))
                err  == configureErr(onset, rateValue, code, count, count > 0)
            IN
            /\ last' = Called("DPxSetDacSched", err)
            /\ IF err = "ok"
               THEN /\ cache' = set(cache, [rate |-> rateValue, unit |-> code,
                                            count |-> count,
                                            countdown |-> (count > 0)])
                    /\ dirty' = dirty \cup {"rate", "unit", "count",
                                            "countdown"}
                    /\ sstate' = "Armed"
               ELSE UNCHANGED <<cache, dirty, sstate>>
    /\ UNCHANGED <<dev, run>>
    /\ UNCHANGED pending
    /\ UNCHANGED selVars
    /\ UNCHANGED auxVars

\* DPxSetDacSched accepted in every state of the schedule
DPxSetDacSched_anystate(onset, rateValue, rateUnits, count) ==
    /\ UnitKey(rateUnits) \in ApiKeys
    /\ RateInDomain(rateValue, api_constants(UnitKey(rateUnits)))
    /\ last' = Called("DPxSetDacSched", "ok")
    /\ cache' = set(cache, [onset |-> onset, rate |-> rateValue,
                             unit |-> api_constants(UnitKey(rateUnits)),
                             count |-> count, countdown |-> (count > 0)])
    /\ dirty' = dirty \cup {"onset", "rate", "unit", "count", "countdown"}
    /\ sstate' = IF sstate = "Running" THEN "Running" ELSE "Armed"
    /\ UNCHANGED <<dev, run>>
    /\ UNCHANGED pending
    /\ UNCHANGED selVars
    /\ UNCHANGED auxVars

\* DPxSetDacSched(onset, rateValue, rateUnits, count): onset, rate and count;
\* the count down mode is enabled if count is greater than zero
DPxSetDacSched(onset, rateValue, rateUnits, count) ==
    /\ IF UnitKey(rateUnits) \notin ApiKeys
       THEN /\ last' = Called("DPxSetDacSched", "KeyError")
            /\ UNCHANGED <<cache, dirty, sstate>>
       ELSE LET code == api_constants(UnitKey(rateUnits))
                err  == configureErr(onset, rateValue, code, count, count > 0)
            IN
            /\ last' = Called("DPxSetDacSched", err)
            /\ IF err = "ok"
               THEN /\ cache' = set(cache, [onset |-> onset,
                                            rate |-> rateValue, unit |-> code,
                                            count |-> count,
                                            countdown |-> (count > 0)])
                    /\ dirty' = dirty \cup {"onset", "rate", "unit", "count",
                                            "countdown"}
                    /\ sstate' = "Armed"
               ELSE UNCHANGED <<cache, dirty, sstate>>
    /\ UNCHANGED <<dev, run>>
    /\ UNCHANGED pending
    /\ UNCHANGED selVars
    /\ UNCHANGED auxVars

\* startSchedule committing the dirty registers before it looks at the
\* descriptor
startSchedule_commitfirst ==
    /\ last' = Called("startSchedule", startErr)
    /\ dirty' = {}
    /\ IF startErr = "ok"
       THEN /\ dev' = [commit(dev) EXCEPT !.running = TRUE]
            /\ cache' = [cache EXCEPT !.running = TRUE]
            /\ sstate' = "Running"
            /\ run' = [free |-> FreeRun(commit(dev)), n |-> commit(dev).count,
                       ticks |-> 0, stopped |-> FALSE]
       ELSE /\ dev' = commit(dev)
            /\ UNCHANGED <<cache, sstate, run>>
    /\ UNCHANGED pending
    /\ UNCHANGED selVars
    /\ UNCHANGED auxVars

\* startSchedule telling the device to start without committing
startSchedule_nocommit ==
    /\ last' = Called("startSchedule", startErr)
    /\ IF startErr = "ok"
       THEN /\ dev' = [dev EXCEPT !.running = TRUE]
            /\ cache' = [cache EXCEPT !.running = TRUE]
            /\ sstate' = "Running"
            /\ run' = [free |-> FreeRun(dev), n |-> dev.count,
                       ticks |-> 0, stopped |-> FALSE]
            /\ UNCHANGED dirty
       ELSE UNCHANGED <<cache, dirty, dev, sstate, run>>
    /\ UNCHANGED pending
    /\ UNCHANGED selVars
    /\ UNCHANGED auxVars

\* startSchedule telling the device to start whatever the descriptor is
startSchedule_unchecked ==
    /\ last' = Called("startSchedule", startErr)
    /\ dev' = [commit(dev) EXCEPT !.running = TRUE]
    /\ cache' = [cache EXCEPT !.running = TRUE]
    /\ dirty' = {}
    /\ sstate' = "Running"
    /\ run' = [free |-> FreeRun(commit(dev)), n |-> commit(dev).count,
               ticks |-> 0, stopped |-> FALSE]
    /\ UNCHANGED pending
    /\ UNCHANGED selVars
    /\ UNCHANGED auxVars

\* AnalogOut.startSchedule() -> DPxStartDacSched: the dirty registers are
\* committed, then the device is told to start
startSchedule ==
    /\ last' = Called("startSchedule", startErr)
    /\ IF startErr = "ok"
       THEN /\ dev' = [commit(dev) EXCEPT !.running = TRUE]
            /\ cache' = [cache EXCEPT !.running = TRUE]
            /\ dirty' = {}
            /\ sstate' = "Running"
            /\ run' = [free |-> FreeRun(commit(dev)), n |-> commit(dev).count,
                       ticks |-> 0, stopped |-> FALSE]
       ELSE UNCHANGED <<cache, dirty, dev, sstate, run>>
    /\ UNCHANGED pending
    /\ UNCHANGED selVars
    /\ UNCHANGED auxVars

\* stopSchedule disabling the buffering of every channel as it stops
stopSchedule_clearmask ==
    /\ last' = Called("stopSchedule", "ok")
    /\ dev' = [dev EXCEPT !.running = FALSE]
    /\ cache' = [cache EXCEPT !.running = FALSE, !.mask = {}]
    /\ sstate' = "Idle"
    /\ run' = [run EXCEPT !.stopped = TRUE]
    /\ UNCHANGED dirty
    /\ UNCHANGED pending
    /\ UNCHANGED selVars
    /\ UNCHANGED auxVars

\* stopSchedule refusing to stop a schedule that is not running
stopSchedule_strict ==
    /\ last' = Called("stopSchedule",
                      IF sstate = "Running" THEN "ok" ELSE "InvalidState")
    /\ dev' = [dev EXCEPT !.running = FALSE]
    /\ cache' = [cache EXCEPT !.running = FALSE]
    /\ sstate' = IF sstate = "Running" THEN "Idle" ELSE sstate
    /\ run' = [run EXCEPT !.stopped = TRUE]
    /\ UNCHANGED dirty
    /\ UNCHANGED pending
    /\ UNCHANGED selVars
    /\ UNCHANGED auxVars

\* AnalogOut.stopSchedule() -> DPxStopDacSched
stopSchedule ==
    /\ last' = Called("stopSchedule", "ok")
    /\ dev' = [dev EXCEPT !.running = FALSE]
    /\ cache' = [cache EXCEPT !.running = FALSE]
    /\ sstate' = "Idle"
    /\ run' = [run EXCEPT !.stopped = TRUE]
    /\ UNCHANGED dirty
    /\ UNCHANGED pending
    /\ UNCHANGED selVars
    /\ UNCHANGED auxVars

\* DPxWriteRegCache forgetting every dirty mark when the link fails
DPxWriteRegCache_forgetful(accepted) ==
    /\ accepted \subseteq dirty
    /\ last' = Called("writeRegisterCache",
                      IF accepted = dirty THEN "ok" ELSE "LinkError")
    /\ dev' = linkWrite(dev, accepted)
    /\ dirty' = {}
    /\ UNCHANGED <<cache, sstate, run>>
    /\ UNCHANGED pending
    /\ UNCHANGED selVars
    /\ UNCHANGED auxVars

\* DPxWriteRegCache reporting success whatever the link carried
DPxWriteRegCache_silent(accepted) ==
    /\ accepted \subseteq dirty
    /\ last' = Called("writeRegisterCache", "ok")
    /\ dev' = linkWrite(dev, accepted)
    /\ dirty' = dirty \ accepted
    /\ UNCHANGED <<cache, sstate, run>>
    /\ UNCHANGED pending
    /\ UNCHANGED selVars
    /\ UNCHANGED auxVars

\* DPxWriteRegCache(): the dirty registers go over the link to the device;
\* the link carries the registers of `accepted' and fails before the others
DPxWriteRegCache(accepted) ==
    /\ accepted \subseteq dirty
    /\ last' = Called("writeRegisterCache",
                      IF accepted = dirty THEN "ok" ELSE "LinkError")
    /\ dev' = linkWrite(dev, accepted)
    /\ dirty' = dirty \ accepted
    /\ UNCHANGED <<cache, sstate, run>>
    /\ UNCHANGED pending
    /\ UNCHANGED selVars
    /\ UNCHANGED auxVars

\* the registers sent for the next vertical sync: those of `sent' with the
\* values of the cache, added to the ones the device already holds
hold(p, sent) ==
    [regs  |-> p.regs \cup sent,
     image |-> [r \in DOMAIN p.image |->
                   IF r \in sent THEN cache[r] ELSE p.image[r]]]

\* the device at the leading edge of a vertical sync pulse: the registers
\* it holds are written
latch(d, p) == [r \in DOMAIN d |-> IF r \in p.regs THEN p.image[r] ELSE d[r]]

\* DPxWriteRegCacheAfterVideoSync writing the device registers at once
DPxWriteRegCacheAfterVideoSync_atonce ==
    /\ last' = Called("writeRegisterCacheAfterVideoSync", "ok")
    /\ dev' = commit(dev)
    /\ dirty' = {}
    /\ UNCHANGED <<cache, sstate, run, pending>>
    /\ UNCHANGED selVars
    /\ UNCHANGED auxVars

\* DPxWriteRegCacheAfterVideoSync(): like DPxWriteRegCache, but the device
\* only writes the registers on the leading edge of the next vertical sync
\* pulse
DPxWriteRegCacheAfterVideoSync ==
    /\ last' = Called("writeRegisterCacheAfterVideoSync", "ok")
    /\ pending' = hold(pending, dirty)
    /\ dirty' = {}
    /\ UNCHANGED <<cache, dev, sstate, run>>
    /\ UNCHANGED selVars
    /\ UNCHANGED auxVars

\* the leading edge of a vertical sync pulse of the video signal
VSync ==
    /\ dev' = latch(dev, pending)
    /\ pending' = [pending EXCEPT !.regs = {}]
    /\ UNCHANGED <<cache, dirty, sstate, run, last>>
    /\ UNCHANGED selVars
    /\ UNCHANGED auxVars

\* DpxDevice.writeRegisterCache() -> DPxWriteRegCache, the link working
writeRegisterCache == DPxWriteRegCache(dirty)

\* updateRegisterCache reading the device registers back without writing
\* the dirty ones first
updateRegisterCache_readonly ==
    /\ last' = Called("updateRegisterCache", "ok")
    /\ cache' = dev
    /\ dirty' = {}
    /\ UNCHANGED <<dev, sstate, run>>
    /\ UNCHANGED pending
    /\ UNCHANGED selVars
    /\ UNCHANGED auxVars

\* DpxDevice.updateRegisterCache() -> DPxUpdateRegCache: DPxWriteRegCache,
\* then the device registers are read back into the cache
updateRegisterCache ==
    /\ last' = Called("updateRegisterCache", "ok")
    /\ dev' = commit(dev)
    /\ cache' = commit(dev)
    /\ dirty' = {}
    /\ UNCHANGED <<sstate, run>>
    /\ UNCHANGED pending
    /\ UNCHANGED selVars
    /\ UNCHANGED auxVars

\* the ticks of the run; those of a free run are counted up to MaxTicks
Elapsed(r) == IF r.free /\ r.ticks >= MaxTicks THEN r.ticks ELSE r.ticks + 1

\* one schedule tick of the device: a sample is moved, the cursor advances,
\* the count moves (down in count down mode, up otherwise, within the width
\* of the register), and a count down that reaches zero halts the schedule
\* without any word to the host
Tick ==
    /\ dev.running
    /\ run' = [run EXCEPT !.ticks = Elapsed(run)]
    /\ IF run.free
       THEN /\ dev' = [dev EXCEPT !.cursor = Advance(dev),
                                  !.count = (dev.count + 1) % (MaxCount + 1)]
            /\ UNCHANGED sstate
       ELSE /\ dev' = [dev EXCEPT !.cursor = Advance(dev),
                                  !.count = dev.count - 1,
                                  !.running = (dev.count - 1 > 0)]
            /\ sstate' = IF dev.count - 1 > 0 THEN "Running" ELSE "Idle"
    /\ UNCHANGED <<cache, dirty, last>>
    /\ UNCHANGED pending
    /\ UNCHANGED selVars
    /\ UNCHANGED auxVars

(***************************************************************************)
(* Specifications                                                          *)
(***************************************************************************)
\* the selection protocol: two threads calling device methods
InitSel == SelInit /\ InitSched

NextSel ==
    \E t \in Threads :
        \/ \E d \in DeviceTypes : SetActive(t, d)
        \/ \E m \in PROPixxMethods : CallPROPixx(t, m)
        \/ \E d \in DeviceTypes : CallDpxDevice(t, d)
        \/ \E d \in DeviceTypes : getTime(t, d)
        \/ LedBadIntensity(t)
        \/ SelectOwn(t)
        \/ Operate(t)
        \/ RestoreValid(t)
        \/ ReturnNoRestore(t)
        \/ LedRaise(t)

SpecSel == InitSel /\ [][NextSel]_vars

\* the DAC schedule of a PROPixx controller, driven by one caller
SelFixed ==
    /\ detected = {DEV_PROPIXXCTRL}
    /\ selected = DEV_PROPIXXCTRL
    /\ pc = [t \in Threads |-> "idle"]
    /\ meth = [t \in Threads |-> "none"]
    /\ own = [t \in Threads |-> {}]
    /\ prev = [t \in Threads |-> {}]
    /\ opSel = [t \in Threads |-> {}]
    /\ exitKind = [t \in Threads |-> "none"]
    /\ enclosing = [t \in Threads |-> {}]

InitDac == SelFixed /\ InitSched

(***************************************************************************)
(* Device objects and the error code of the library                        *)
(***************************************************************************)
\* the library detects an error in some call and records its code; the code
\* stays until it is cleared
LibraryError(code) ==
    /\ dpxError' = code
    /\ UNCHANGED <<objects, active, xfer, data_unit, vr_scenes,
                   current_vr_scene, arena>>
    /\ UNCHANGED selVars
    /\ UNCHANGED regVars

\* DPxClearError()
DPxClearError ==
    /\ dpxError' = DPX_SUCCESS
    /\ UNCHANGED <<objects, active, xfer, data_unit, vr_scenes,
                   current_vr_scene, arena>>
    /\ UNCHANGED selVars
    /\ UNCHANGED regVars

\* DPxOpen(): the error code after the call; a failure is recorded, a
\* success records nothing
DPxOpen(found) == IF found THEN dpxError ELSE DPX_ERR_USB_NO_DATAPIXX

\* DPxGetError(): the name of the last detected error
DPxGetError(code) == err_return(code)

\* DpxDevice.__init__(device_type): DPxOpen(); if DPxGetError() is not
\* DPX_SUCCESS the error is cleared and the exception raised; otherwise the
\* device is selected and the object is made, its `active' set to True
DpxDevice_init(device_type, found) ==
    /\ IF DPxGetError(DPxOpen(found)) # "DPX_SUCCESS"
       THEN /\ dpxError' = DPX_SUCCESS
            /\ last' = Called("DpxDevice", "NoDeviceFound")
            /\ UNCHANGED <<selected, objects, active>>
       ELSE /\ dpxError' = DPxOpen(found)
            /\ last' = Called("DpxDevice", "ok")
            /\ selected' = DPxSelectDevice(device_type, selected)
            /\ objects' = objects \cup {device_type}
            /\ active' = active \cup {device_type}
    /\ UNCHANGED <<detected, pc, meth, own, prev, opSel, exitKind, enclosing>>
    /\ UNCHANGED <<cache, dirty, dev, sstate, run, pending>>
    /\ UNCHANGED <<xfer, data_unit, vr_scenes, current_vr_scene, arena>>

\* DpxDevice.setActive(): `active' is True if DPxSelectDevice returns
\* non-zero, False otherwise
DpxDevice_setActive(o) ==
    /\ o \in objects
    /\ last' = Called("setActive", "ok")
    /\ selected' = DPxSelectDevice(o, selected)
    /\ active' = IF DPxDetectDevice(o) THEN active \cup {o} ELSE active \ {o}
    /\ UNCHANGED <<detected, pc, meth, own, prev, opSel, exitKind, enclosing>>
    /\ UNCHANGED <<cache, dirty, dev, sstate, run, pending>>
    /\ UNCHANGED <<dpxError, objects, xfer, data_unit, vr_scenes,
                   current_vr_scene, arena>>

\* DpxDevice.isActive()
isActive(o) == o \in active

(***************************************************************************)
(* RAM transfers                                                           *)
(***************************************************************************)
\* ctypes.c_ushort(v): the value in 16 bits
c_ushort(v) == v % 65536

\* ctypes.sizeof(ctypes.c_ushort)
int_size == 2

\* DPxReadRam(address, length): a list of `length' zeros is packed and
\* ReadRam(c_uint(address), c_ushort(total_size), packed_data) is called;
\* the addresses of the model are far below 32 bits and pass unchanged
DPxReadRam(address, length) ==
    /\ xfer' = [op |-> "read", address |-> address, words |-> length,
                bytes |-> c_ushort(int_size * length)]
    /\ last' = Called("readRam", "ok")
    /\ UNCHANGED <<cache, dirty, dev, sstate, run, pending>>
    /\ UNCHANGED <<dpxError, objects, active, data_unit, vr_scenes,
                   current_vr_scene, arena>>
    /\ UNCHANGED selVars

\* DPxWriteRam(address, int_list) with a list of item_count elements:
\* WriteRam(c_uint(address), c_ushort(total_size), packed_data) is called
DPxWriteRam(address, item_count) ==
    /\ xfer' = [op |-> "write", address |-> address,
                words |-> item_count,
                bytes |-> c_ushort(int_size * item_count)]
    /\ last' = Called("writeRam", "ok")
    /\ UNCHANGED <<cache, dirty, dev, sstate, run, pending>>
    /\ UNCHANGED <<dpxError, objects, active, data_unit, vr_scenes,
                   current_vr_scene, arena>>
    /\ UNCHANGED selVars

(***************************************************************************)
(* Schedule.data_unit                                                      *)
(***************************************************************************)
\* `a is b' between the string a just made by str.lower() and the literal
\* b: True only if both are one object, which the interpreter decides
\* (`same'), and never for strings that differ
Is(a, b, same) == a = b /\ same

\* Schedule.setDataUnit(unit)
setDataUnit(unit, same) ==
    /\ data_unit' = IF \/ Is(Lower(unit), <<"d", "e", "c">>, same)
                       \/ Is(Lower(unit), <<"h", "e", "x">>, same)
                    THEN unit
                    ELSE data_unit
    /\ last' = Called("setDataUnit", "ok")
    /\ UNCHANGED <<cache, dirty, dev, sstate, run, pending>>
    /\ UNCHANGED <<dpxError, objects, active, xfer, vr_scenes,
                   current_vr_scene, arena>>
    /\ UNCHANGED selVars

\* Schedule.getDataUnit()
getDataUnit == data_unit

(***************************************************************************)
(* Codec volume of the audio output                                        *)
(***************************************************************************)
\* DPxSetAudCodecOutLeftVolume, DPxSetAudCodecOutRightVolume and
\* DPxSetAudCodecOutVolume: the volume, with its unit (0 linear, 1 dB), of
\* the left channel, of the right channel, of both
DPxSetAudCodecOutLeftVolume(c, volume, dBUnits) ==
    set(c, [codecleft |-> <<volume, dBUnits>>])

DPxSetAudCodecOutRightVolume(c, volume, dBUnits) ==
    set(c, [codecright |-> <<volume, dBUnits>>])

DPxSetAudCodecOutVolume(c, volume, dBUnits) ==
    set(c, [codecleft |-> <<volume, dBUnits>>,
            codecright |-> <<volume, dBUnits>>])

\* AudioOut.setCodecVolumeRight(volume, unit)
setCodecVolumeRight(volume, unit) ==
    /\ last' = Called("setCodecVolumeRight", "ok")
    /\ cache' = DPxSetAudCodecOutLeftVolume(cache, volume, unit)
    /\ dirty' = dirty \cup {"codecleft"}
    /\ UNCHANGED <<dev, sstate, run>>
    /\ UNCHANGED pending
    /\ UNCHANGED selVars
    /\ UNCHANGED auxVars

\* AudioOut.setCodecVolumeLeft(volume, unit)
setCodecVolumeLeft(volume, unit) ==
    /\ last' = Called("setCodecVolumeLeft", "ok")
    /\ cache' = DPxSetAudCodecOutLeftVolume(cache, volume, unit)
    /\ dirty' = dirty \cup {"codecleft"}
    /\ UNCHANGED <<dev, sstate, run>>
    /\ UNCHANGED pending
    /\ UNCHANGED selVars
    /\ UNCHANGED auxVars

\* AudioOut.setCodecVolume(volume, unit)
setCodecVolume(volume, unit) ==
    /\ last' = Called("setCodecVolume", "ok")
    /\ cache' = DPxSetAudCodecOutVolume(cache, volume, unit)
    /\ dirty' = dirty \cup {"codecleft", "codecright"}
    /\ UNCHANGED <<dev, sstate, run>>
    /\ UNCHANGED pending
    /\ UNCHANGED selVars
    /\ UNCHANGED auxVars

\* AudioOut.getCodecVolumeLeft(unit) and getCodecVolumeRight(unit); the
\* volume is read in the unit it was set in
getCodecVolumeLeft == get("codecleft")

getCodecVolumeRight == get("codecright")

(***************************************************************************)
(* RatcaveApp: the virtual scenes                                          *)
(***************************************************************************)
\* the ratcave Scene objects of the caller, and an object that is no Scene
Scenes == {1, 2, 3}
NotAScene == 0

\* the current_vr_scene setter: the exception it raises, if any
assignErr(scene) ==
    IF scene \notin Scenes \cup {None} THEN "TypeError"
    ELSE IF scene = None THEN "ok"
    ELSE IF scene \notin vr_scenes THEN "ValueError"
    ELSE "ok"

\* RatcaveApp.register_vr_scene accepting a scene without adding it to
\* _vr_scenes
register_vr_scene_noadd(scene) ==
    /\ IF scene \notin Scenes
       THEN /\ last' = Called("register_vr_scene", "TypeError")
            /\ UNCHANGED <<vr_scenes, current_vr_scene, arena>>
       ELSE /\ last' = Called("register_vr_scene", "ok")
            /\ UNCHANGED vr_scenes
            /\ current_vr_scene' = scene
            /\ arena' = [texture |-> "cube",
                         orig_texture |-> IF vr_scenes = {} /\ arena.texture # "None"
                                          THEN arena.texture
                                          ELSE arena.orig_texture]
    /\ UNCHANGED <<cache, dirty, dev, sstate, run, pending>>
    /\ UNCHANGED <<dpxError, objects, active, xfer, data_unit>>
    /\ UNCHANGED selVars

\* RatcaveApp.register_vr_scene(scene): with no scene registered yet the
\* arena's texture is kept in orig_texture and replaced by the cube
\* texture; the scene is added to _vr_scenes and made the current one
register_vr_scene(scene) ==
    /\ IF scene \notin Scenes
       THEN /\ last' = Called("register_vr_scene", "TypeError")
            /\ UNCHANGED <<vr_scenes, current_vr_scene, arena>>
       ELSE /\ last' = Called("register_vr_scene", "ok")
            /\ vr_scenes' = vr_scenes \cup {scene}
            /\ current_vr_scene' = scene
            /\ arena' = [texture |-> "cube",
                         orig_texture |-> IF vr_scenes = {} /\ arena.texture # "None"
                                          THEN arena.texture
                                          ELSE arena.orig_texture]
    /\ UNCHANGED <<cache, dirty, dev, sstate, run, pending>>
    /\ UNCHANGED <<dpxError, objects, active, xfer, data_unit>>
    /\ UNCHANGED selVars

\* RatcaveApp.current_vr_scene = scene
set_current_vr_scene(scene) ==
    /\ last' = Called("current_vr_scene", assignErr(scene))
    /\ IF assignErr(scene) # "ok"
       THEN UNCHANGED <<current_vr_scene, arena>>
       ELSE IF scene = None
       THEN /\ current_vr_scene' = None
            /\ arena' = IF arena.orig_texture # "None"
                        THEN [arena EXCEPT !.texture = arena.orig_texture]
                        ELSE arena
       ELSE /\ current_vr_scene' = scene
            /\ arena' = [arena EXCEPT !.texture = "cube"]
    /\ UNCHANGED vr_scenes
    /\ UNCHANGED <<cache, dirty, dev, sstate, run, pending>>
    /\ UNCHANGED <<dpxError, objects, active, xfer, data_unit>>
    /\ UNCHANGED selVars

(***************************************************************************)
(* Raw access to the register cache                                        *)
(***************************************************************************)
\* a 32-bit register at an aligned address is the 16-bit word at that
\* address, its low half, and the word at the next word address
WordMax == 65535

\* the library function DPxSetReg16: a datum out of the range of 16 bits is
\* refused with DPX_ERR_SETREG16_DATA_RANGE, otherwise the word at regAddr
\* is written in the cache
SetReg16(op, regAddr, regValue) ==
    /\ IF regValue \notin 0..WordMax
       THEN /\ last' = Called(op, "DPX_ERR_SETREG16_DATA_RANGE")
            /\ dpxError' = DPX_ERR_SETREG16_DATA_RANGE
            /\ UNCHANGED <<cache, dirty>>
       ELSE /\ last' = Called(op, "ok")
            /\ cache' = set(cache, [regfile |->
                               [cache.regfile EXCEPT ![regAddr] = regValue]])
            /\ dirty' = dirty \cup {"regfile"}
            /\ UNCHANGED dpxError
    /\ UNCHANGED <<dev, sstate, run, pending>>
    /\ UNCHANGED <<objects, active, xfer, data_unit, vr_scenes,
                   current_vr_scene, arena>>
    /\ UNCHANGED selVars

\* DPxSetReg16 = DPxDll['DPxSetReg16']
DPxSetReg16(regAddr, regValue) == SetReg16("DPxSetReg16", regAddr, regValue)

\* DPxSetReg32 = DPxDll['DPxSetReg16']
DPxSetReg32(regAddr, regValue) == SetReg16("DPxSetReg32", regAddr, regValue)

\* DPxGetReg16(regAddr) and DPxGetReg32(regAddr), from the cache
DPxGetReg16(regAddr) == get("regfile")[regAddr]

DPxGetReg32(regAddr) ==
    get("regfile")[regAddr] + (WordMax + 1) * get("regfile")[regAddr + 2]

\* the arguments callers pass
Addrs      == 0..(RamSize + 1)
RateValues == {999, 1000, 1000001}
AdcRateValues == {4999, 5000, 200001}
AdcUnitNames  == {U_hz, U_nano}
UnitNames  == {U_hz, U_video, U_nano, U_Hz, U_khz}
Counts     == 0..MaxCount

\* the schedule state machine: one buffer, one rate, every count
NextDac ==
    \/ \E a \in {0, 1} : DPxSetDacBuff(a, 2)
    \/ \E b \in BOOLEAN : setScheduleCountDown(b)
    \/ \E v \in {1000, 1000001}, c \in Counts : DPxSetDacSched(0, v, U_hz, c)
    \/ startSchedule
    \/ stopSchedule
    \/ writeRegisterCache
    \/ updateRegisterCache
    \/ Tick

SpecDac == InitDac /\ [][NextDac]_vars

\* configuring and starting: a rate inside and one outside the domain, every
\* count, one buffer
NextCfg ==
    \/ \E v \in {1000, 1000001}, c \in Counts : DPxSetDacSched(0, v, U_hz, c)
    \/ \E c \in Counts : setScheduleCount(c)
    \/ \E a \in {0, 1} : DPxSetDacBuff(a, 2)
    \/ startSchedule
    \/ stopSchedule
    \/ Tick

SpecCfg == InitDac /\ [][NextCfg]_vars

\* the ring buffer descriptor: every address and size, a schedule started and
\* stopped
NextBuf ==
    \/ \E a \in Addrs : setBaseAddress(a)
    \/ \E n \in Addrs : setBufferSize(n)
    \/ \E a \in Addrs, n \in Addrs : DPxSetDacBuff(a, n)
    \/ startSchedule
    \/ stopSchedule

SpecBuf == InitDac /\ [][NextBuf]_vars

\* the ring buffer with its cursor: every address and size, cursor writes, a
\* schedule that runs and advances the cursor
NextRing ==
    \/ \E a \in Addrs : setBaseAddress(a)
    \/ \E n \in Addrs : setBufferSize(n)
    \/ \E a \in Addrs : setReadAddress(a)
    \/ \E a \in {0, 2}, n \in {2, 4} : DPxSetDacBuff(a, n)
    \/ startSchedule
    \/ stopSchedule
    \/ Tick

SpecRing == InitDac /\ [][NextRing]_vars

\* the channel references of the Adc: channels inside and outside the
\* buffered range, reference names of the source and others
AdcChannels == {0, DPX_ADC_NCHANS - 1, DPX_ADC_NCHANS, DPX_ADC_NCHANS + 1,
                DPX_ADC_NCHANS + 4}
RefNames    == {<<"g", "n", "d">>, <<"d", "i", "f", "f">>,
                <<"R", "e", "f", "1">>,
                <<"g", "r", "o", "u", "n", "d">>}

NextAdc ==
    \/ \E ch \in AdcChannels, ref \in RefNames : setChannelReference(ch, ref)
    \/ \E a \in {0, 2} : DPxSetDacBuff(a, 2)
    \/ writeRegisterCache
    \/ updateRegisterCache

SpecAdc == InitDac /\ [][NextAdc]_vars

\* the rate domains of the Dac and of the Adc: values on both sides of the
\* bounds of each unit
NextDom ==
    \/ \E v \in RateValues, u \in AdcUnitNames : setScheduleRate(v, u)
    \/ \E v \in AdcRateValues, u \in AdcUnitNames : DPxSetAdcSchedRate(v, u)
    \/ DPxSetDacBuff(0, 2)
    \/ startSchedule
    \/ stopSchedule

SpecDom == InitDac /\ [][NextDom]_vars

\* the calls that can fail with a validation error, on the buffer, the rate,
\* a channel reference and the start, with a device that ticks
NextErr ==
    \/ \E a \in Addrs : setBaseAddress(a)
    \/ \E n \in Addrs : setBufferSize(n)
    \/ \E v \in {DacMaxHz, DacMaxHz + 1} : setScheduleRate(v, U_hz)
    \/ \E ch \in {0, DPX_ADC_NCHANS} : setChannelReference(ch, <<"d", "i", "f", "f">>)
    \/ startSchedule
    \/ stopSchedule
    \/ Tick

SpecErr == InitDac /\ [][NextErr]_vars

\* the commit over a link that can fail: buffer and rate registers written
\* in the cache, then sent, the link accepting any part of them
NextLink ==
    \/ \E a \in {0, 2} : DPxSetDacBuff(a, 2)
    \/ \E v \in {DacMaxHz - 1, DacMaxHz} : setScheduleRate(v, U_hz)
    \/ \E accepted \in SUBSET dirty : DPxWriteRegCache(accepted)

SpecLink == InitDac /\ [][NextLink]_vars

\* buffers set with DPxSetDacBuff only, committed over a link that can
\* fail part-way, and a schedule that runs on them
BufAddrs == {0, 2}
BufSizes == {2, 4}

NextAtom ==
    \/ \E a \in BufAddrs, n \in BufSizes : DPxSetDacBuff(a, n)
    \/ \E accepted \in SUBSET dirty : DPxWriteRegCache(accepted)
    \/ startSchedule
    \/ stopSchedule
    \/ Tick

SpecAtom == InitDac /\ [][NextAtom]_vars

\* the channel mask of the Dac: channels inside and outside its range and
\* no channel at all, with a schedule that is started and stopped
MaskChannels == {None, 0, DPX_DAC_NCHANS - 1, DPX_DAC_NCHANS,
                 all_channels - 1, all_channels}

NextMask ==
    \/ \E b \in BOOLEAN, ch \in MaskChannels : setChannelRamBuffering(b, ch)
    \/ DPxSetDacBuff(0, 2)
    \/ startSchedule
    \/ stopSchedule
    \/ updateRegisterCache

SpecMask == InitDac /\ [][NextMask]_vars

\* the buffers of the microphone and of the audio output, two subsystems of
\* one device
NextMic ==
    \/ \E a \in Addrs : AudioIn_setBaseAddress(a)
    \/ \E n \in Addrs : AudioIn_setBufferSize(n)
    \/ \E a \in Addrs : setBaseAddressLeft(a)
    \/ updateRegisterCache

SpecMic == InitDac /\ [][NextMic]_vars

\* the channel mask next to the life of a schedule: configured, started,
\* stopped and run to the end of its count
NextInd ==
    \/ \E b \in BOOLEAN, ch \in {None, 0, DPX_DAC_NCHANS} :
          setChannelRamBuffering(b, ch)
    \/ DPxSetDacSched(0, DacMaxHz, U_hz, 1)
    \/ DPxSetDacBuff(0, 2)
    \/ startSchedule
    \/ stopSchedule
    \/ Tick

SpecInd == InitDac /\ [][NextInd]_vars

\* device objects constructed and made active, on a library whose error
\* code other calls set and clear
ErrorCodes == {DPX_ERR_DAC_SCHED_TOO_FAST}

NextObj ==
    \/ \E code \in ErrorCodes : LibraryError(code)
    \/ DPxClearError
    \/ \E d \in DeviceTypes, found \in BOOLEAN : DpxDevice_init(d, found)
    \/ \E o \in objects : DpxDevice_setActive(o)

SpecObj == InitSel /\ [][NextObj]_vars

\* RAM read and written in blocks of every length around the point where
\* the byte count passes 16 bits, next to the buffer that is set on it
Lengths == {0, 1, 2, 32767, 32768, 32769}

NextRam ==
    \/ \E a \in {0, 2}, n \in Lengths : DPxReadRam(a, n)
    \/ \E a \in {0, 2}, n \in Lengths : DPxWriteRam(a, n)
    \/ \E a \in {0, 2} : DPxSetDacBuff(a, 2)
    \/ updateRegisterCache

SpecRam == InitDac /\ [][NextRam]_vars

\* the data unit of an analog output, set next to its buffer
DataUnits == {<<"D", "e", "c">>, <<"H", "e", "x">>, <<"h", "e", "x">>,
              <<"D", "E", "C">>, <<"b", "i", "n">>}

NextData ==
    \/ \E u \in DataUnits, same \in BOOLEAN : setDataUnit(u, same)
    \/ \E a \in {0, 2}, n \in {2, 4} : DPxSetDacBuff(a, n)
    \/ updateRegisterCache

SpecData == InitDac /\ [][NextData]_vars

\* the codec volume of each channel and of both, in both units
Volumes == {0, 1}

NextVol ==
    \/ \E v \in Volumes, u \in {0, 1} : setCodecVolumeRight(v, u)
    \/ \E v \in Volumes, u \in {0, 1} : setCodecVolumeLeft(v, u)
    \/ \E v \in Volumes, u \in {0, 1} : setCodecVolume(v, u)
    \/ updateRegisterCache

SpecVol == InitDac /\ [][NextVol]_vars

\* scenes registered and made current in every order
NextApp ==
    \/ \E sc \in Scenes \cup {NotAScene} : register_vr_scene(sc)
    \/ \E sc \in Scenes \cup {None, NotAScene} : set_current_vr_scene(sc)

SpecApp == InitDac /\ [][NextApp]_vars

\* one 32-bit register written as a whole and by its two words
RegValues == {0, 1, WordMax, WordMax + 1, WordMax + 2}

NextReg ==
    \/ \E v \in RegValues : DPxSetReg32(0, v)
    \/ \E a \in {0, 2}, v \in RegValues : DPxSetReg16(a, v)
    \/ DPxClearError
    \/ updateRegisterCache
    \/ writeRegisterCache

SpecReg == InitDac /\ [][NextReg]_vars

\* commits for the next vertical sync, of buffer and rate registers
NextVSync ==
    \/ \E a \in {0, 2} : DPxSetDacBuff(a, 2)
    \/ \E v \in {DacMaxHz - 1, DacMaxHz} : setScheduleRate(v, U_hz)
    \/ DPxWriteRegCacheAfterVideoSync
    \/ VSync

SpecVSync == InitDac /\ [][NextVSync]_vars

\* the schedule set in one call and register by register
Onsets == {0, 1}

NextSched ==
    \/ \E o \in Onsets : setScheduleOnset(o)
    \/ setScheduleRate(1000, U_hz)
    \/ setScheduleCount(1)
    \/ \E o \in Onsets, v \in {DacMaxHz, DacMaxHz + 1}, c \in {0, MaxCount} :
          DPxSetDacSched(o, v, U_hz, c)
    \/ DPxSetDacBuff(0, 2)
    \/ startSchedule
    \/ stopSchedule

SpecSched == InitDac /\ [][NextSched]_vars

\* the unit argument of the rate setter: a rate unit, names of other
\* constants of the library, a name that is no constant
UnitArgs == {U_hz, <<"g", "n", "d">>, <<"d", "i", "f", "f">>,
             <<"l", "e", "f", "t">>, U_khz}

NextUnit ==
    \/ \E v \in {DacMaxHz - 1, DacMaxHz}, u \in UnitArgs : setScheduleRate(v, u)
    \/ DPxSetDacBuff(0, 2)
    \/ startSchedule
    \/ stopSchedule
    \/ updateRegisterCache

SpecUnit == InitDac /\ [][NextUnit]_vars

\* the schedule rate: every value and unit name, one buffer
NextRate ==
    \/ \E v \in RateValues, u \in UnitNames : setScheduleRate(v, u)
    \/ DPxSetDacBuff(0, 2)
    \/ startSchedule
    \/ stopSchedule
    \/ updateRegisterCache

SpecRate == InitDac /\ [][NextRate]_vars

(***************************************************************************)
(* Device selection (DeviceSelector)                                       *)
(***************************************************************************)
\* C1: for every interleaving of two threads calling device methods, the
\* register access of a thread runs while the thread's own device is the
\* selected one, and the select-operate-restore sections of different calls
\* never overlap.
C1_SectionsExclusive ==
    /\ \A t \in Threads :
          (/\ pc[t] = "operated" /\ own[t] \subseteq detected
           /\ meth[t] \notin UnselectingMethods) => opSel[t] = own[t]
    /\ \A t \in Threads, u \in Threads :
          t # u => ~(InSection(t) /\ InSection(u))

\* C2: on every exit path of a call (return, returned error, raised
\* exception) the selected device is the one that was selected immediately
\* before the call, no other thread having touched the selection.
C2_RestoresPrevious ==
    \A t \in Threads :
        (/\ exitKind[t] # "none"
         /\ \A u \in Threads \ {t} : Untouched(u))
        => {selected} = prev[t]

\* C3: a call made while the caller holds a device current returns with that
\* enclosing device selected, not with the default device, no other thread
\* having touched the selection.
C3_RestoresEnclosing ==
    \A t \in Threads :
        (/\ exitKind[t] = "restored"
         /\ enclosing[t] # {}
         /\ \A u \in Threads \ {t} : Untouched(u))
        => {selected} = enclosing[t]

(***************************************************************************)
(* Schedule rate                                                           *)
(***************************************************************************)
\* C4, as stated: for every (value, unit) inside the bounds domain,
\* setScheduleRate(value, unit) followed by getScheduleRate and
\* getScheduleUnit gives back exactly the same value and unit.
C4_RoundTripExact ==
    [][\A v \in RateValues, u \in UnitNames :
          (/\ last'.op = "setScheduleRate"
           /\ setScheduleRate(v, u)
           /\ Upper(u) \in {K_HZ, K_VIDEO, K_NANO}
           /\ RateInDomain(v, api_constants(Upper(u))))
          => (getScheduleRate' = v /\ getScheduleUnit' = u)]_vars

\* C4, amended: for every (value, unit) inside the bounds domain and a
\* schedule that is not Running, setScheduleRate(value, unit) followed by
\* getScheduleRate and getScheduleUnit gives back the same value and the
\* upper-case name of the same unit.
C4_RoundTrip ==
    [][\A v \in RateValues, u \in UnitNames :
          (/\ last'.op = "setScheduleRate"
           /\ setScheduleRate(v, u)
           /\ Upper(u) \in {K_HZ, K_VIDEO, K_NANO}
           /\ RateInDomain(v, api_constants(Upper(u)))
           /\ sstate # "Running")
          => (getScheduleRate' = v /\ getScheduleUnit' = Upper(u))]_vars

\* a rate in nanoseconds written with a lower-case unit name has been read back
C4_Witness ==
    /\ last.op = "setScheduleRate"
    /\ last.err = "ok"
    /\ getScheduleRate = DacMinNano
    /\ getScheduleUnit = K_NANO

C7_StopIdempotent ==
    last.op = "stopSchedule" =>
        /\ last.err = "ok"
        /\ sstate = "Idle"
        /\ ~isScheduleRunning

\* a run that had ticked has been stopped, and stopped again
C7_Witness ==
    /\ last.op = "stopSchedule"
    /\ last.rep
    /\ run.ticks > 0
    /\ sstate = "Idle"

C11_ConfigFrozenAsStated ==
    [][(sstate = "Running" /\ sstate' = "Running")
          => FullConfig(cache') = FullConfig(cache)]_vars

\* C11, amended: while the state is Running, the buffer base and size and
\* the onset, rate, unit and countdown, in the cache and in the device, are
\* those the schedule entered Running with; the count is changed by no host
\* call, only by the counting of the device, which updateRegisterCache
\* brings into the cache.
C11_ConfigFrozen ==
    [][(sstate = "Running" /\ sstate' = "Running")
          => /\ StableConfig(cache') = StableConfig(cache)
             /\ StableConfig(dev') = StableConfig(dev)
             /\ cache'.count # cache.count
                => (last'.op = "updateRegisterCache" /\ cache'.count = dev.count)
             /\ dev'.count # dev.count => last' = last]_vars

\* a change of the count down mode has been refused on a schedule that has
\* ticked and is still running
C11_Witness ==
    /\ last.op = "setScheduleCountDown"
    /\ last.err = "InvalidState"
    /\ sstate = "Running"
    /\ run.ticks > 0

C13_InvalidChannel ==
    [][\A ch \in AdcChannels, ref \in RefNames :
         (/\ last'.op = "setChannelReference"
          /\ ch \notin BufferedChannels
          /\ Upper(ref) \in RefKeys
          /\ setChannelReference(ch, ref))
         => /\ last'.err = "InvalidChannel"
            /\ cache' = cache /\ dirty' = dirty /\ dev' = dev]_vars

\* a channel outside the buffered range has been refused after the last
\* buffered channel took a reference
C13_Witness ==
    /\ last.op = "setChannelReference"
    /\ last.err = "InvalidChannel"
    /\ getChannelReference(DPX_ADC_NCHANS - 1) = CHANREF_REF1

(***************************************************************************)
(* Rate domain                                                             *)
(***************************************************************************)
\* C14: setScheduleRate(value, unit) of the Dac and of the Adc, with a unit
\* of the bounds table, fails OutOfRange whenever (value, unit) lies outside
\* the domain of that subsystem, and writes nothing.
C14_OutOfRange ==
    [][/\ \A v \in RateValues, u \in AdcUnitNames :
            (/\ last'.op = "setScheduleRate"
             /\ ~RateInDomain(v, api_constants(Upper(u)))
             /\ setScheduleRate(v, u))
            => (last'.err = "OutOfRange" /\ cache' = cache /\ dev' = dev)
       /\ \A v \in AdcRateValues, u \in AdcUnitNames :
            (/\ last'.op = "DPxSetAdcSchedRate"
             /\ ~AdcRateInDomain(v, api_constants(Upper(u)))
             /\ DPxSetAdcSchedRate(v, u))
            => (last'.err = "OutOfRange" /\ cache' = cache /\ dev' = dev)]_vars

\* a Dac rate outside the domain has been refused while the schedule runs,
\* after the Adc took its shortest period
C14_Witness ==
    /\ last.op = "setScheduleRate"
    /\ last.err = "OutOfRange"
    /\ sstate = "Running"
    /\ get("adcrate") = AdcMinNano
    /\ get("adcunit") = RATE_NANO

(***************************************************************************)
(* Validation errors                                                       *)
(***************************************************************************)
ValidationErrors == {"InvalidAddress", "InvalidSize", "OutOfRange",
                     "InvalidState", "NotConfigured", "InvalidChannel"}

\* C15: a call that fails with a validation error (InvalidAddress,
\* InvalidSize, OutOfRange, InvalidState, NotConfigured, InvalidChannel)
\* sends nothing to the device: a step after which the last call stands
\* failed with such an error and in which a device register changed is a
\* tick of the device, not the call; the call leaves the dirty marks as they
\* were.
C15_NoLinkIO ==
    [][/\ (last'.err \in ValidationErrors /\ dev' # dev) => Tick
       /\ last'.err \in ValidationErrors => dirty' = dirty]_vars

\* a start has failed for want of a descriptor while registers waited to be
\* committed, and the device still holds the old values
C15_Witness ==
    /\ last.op = "startSchedule"
    /\ last.err = "NotConfigured"
    /\ dirty # {}
    /\ cache.base # dev.base

(***************************************************************************)
(* Commit over a failing link                                              *)
(***************************************************************************)
\* C16: when writeRegisterCache fails with LinkError after the device has
\* accepted some of the dirty registers, exactly the registers not accepted
\* remain dirty, the accepted ones hold their new values in the device and
\* the others their old ones; the writeRegisterCache that follows and
\* succeeds sends exactly the registers that remained dirty.
C16_PartialCommit ==
    [][/\ \A accepted \in SUBSET dirty :
            (/\ last'.op = "writeRegisterCache"
             /\ last'.err = "LinkError"
             /\ DPxWriteRegCache(accepted))
            => /\ dirty' = dirty \ accepted
               /\ \A r \in accepted : dev'[r] = cache[r]
               /\ \A r \in DOMAIN dev \ accepted : dev'[r] = dev[r]
               /\ cache' = cache
       /\ (/\ last.op = "writeRegisterCache" /\ last.err = "LinkError"
           /\ last'.op = "writeRegisterCache" /\ last'.err = "ok")
          => /\ \A r \in dirty : dev'[r] = cache[r]
             /\ \A r \in DOMAIN dev \ dirty : dev'[r] = dev[r]
             /\ dirty' = {}]_vars

\* the link has failed after the base of a new buffer was accepted and
\* before the rate was: the device holds the new base and the old rate
C16_Witness ==
    /\ last.op = "writeRegisterCache"
    /\ last.err = "LinkError"
    /\ "base" \notin dirty /\ dev.base = cache.base /\ dev.base # 0
    /\ "rate" \in dirty /\ dev.rate # cache.rate

C18_SelectFailureAborts ==
    \A t \in Threads : pc[t] = "operated" => own[t] \subseteq detected

(***************************************************************************)
(* Reads come from the cache                                               *)
(***************************************************************************)
\* C19: getScheduleCount returns the value held in the cache: the value it
\* returns changes only when the host writes the register (it is then marked
\* dirty) or when updateRegisterCache has read the device, after which it is
\* the value of the device; a tick of the device alone changes nothing it
\* returns.
C19_GetFromCache ==
    [][getScheduleCount' # getScheduleCount
          => \/ "count" \in dirty'
             \/ (last'.op = "updateRegisterCache"
                 /\ getScheduleCount' = dev'.count)]_vars

\* the device has counted since the start and no refresh has been made: the
\* count that is read is still the one of the cache
C19_Witness ==
    /\ last.op = "startSchedule"
    /\ run.ticks > 0
    /\ "count" \notin dirty
    /\ dev.count # getScheduleCount

C21_FreeRunFallback ==
    [][(sstate = "Running" /\ dev.countdown /\ run.n = 0)
          => /\ run.free
             /\ dev.running
             /\ sstate' # "Running"
                => (last'.op = "stopSchedule" /\ ~dev'.running)]_vars

\* a schedule started with count down enabled and count 0 is still running
\* after the largest number of ticks that is counted
C21_Witness ==
    /\ sstate = "Running"
    /\ dev.countdown
    /\ run.n = 0
    /\ run.ticks = MaxTicks
    /\ isScheduleRunning

C23_ShortcutAsStated ==
    [][\A a \in Addrs, n \in Addrs :
          (last'.op = "DPxSetDacBuff" /\ DPxSetDacBuff(a, n))
          => /\ last'.err = "ok" <=> BaseThenSizeOk(cache, a, n)
             /\ last'.err = "ok"
                => /\ cache'.base = BaseThenSize(cache, a, n).base
                   /\ cache'.size = BaseThenSize(cache, a, n).size
                   /\ cache'.cursor = BaseThenSize(cache, a, n).cursor]_vars

\* C23, amended: whenever setBaseAddress(addr) followed by
\* setBufferSize(bytes) both succeed, DPxSetDacBuff(addr, bytes) succeeds too
\* and leaves the same base and size; a successful DPxSetDacBuff leaves base
\* addr, size bytes and the cursor at addr, whatever size and cursor there
\* were before.
C23_Shortcut ==
    [][\A a \in Addrs, n \in Addrs :
          (last'.op = "DPxSetDacBuff" /\ DPxSetDacBuff(a, n))
          => /\ BaseThenSizeOk(cache, a, n)
                => /\ last'.err = "ok"
                   /\ cache'.base = BaseThenSize(cache, a, n).base
                   /\ cache'.size = BaseThenSize(cache, a, n).size
             /\ last'.err = "ok"
                => /\ cache'.base = a /\ cache'.size = n
                   /\ cache'.cursor = a]_vars

\* DPxSetDacBuff has put a buffer in the upper part of the RAM, the cursor
\* on its base, while the device still holds the larger buffer of an earlier
\* run, with which setBaseAddress alone would have been refused
C23_Witness ==
    /\ last.op = "DPxSetDacBuff"
    /\ last.err = "ok"
    /\ cache.base > 0
    /\ cache.base + cache.size = RamSize
    /\ cache.cursor = cache.base
    /\ run.stopped
    /\ dev.size > cache.size

(***************************************************************************)
(* Methods that select no device                                           *)
(***************************************************************************)
\* C24: with one caller only (the other thread makes no call) and every
\* device object's device detected, the register access of every method runs
\* while the device of its object is the selected one.
C24_OwnDeviceSelected ==
    \A t \in Threads :
        (/\ pc[t] = "operated"
         /\ own[t] \subseteq detected
         /\ \A u \in Threads \ {t} : Untouched(u))
        => opSel[t] = own[t]

(***************************************************************************)
(* Buffers of different subsystems                                         *)
(***************************************************************************)
\* C25: AudioIn.setBaseAddress(address) leaves the base address of the audio
\* output unchanged, and when it succeeds the base address of the microphone,
\* as AudioIn.getBaseAddress returns it, is address.
C25_MicBaseOnly ==
    [][\A a \in Addrs :
          (last'.op = "AudioIn.setBaseAddress" /\ AudioIn_setBaseAddress(a))
          => /\ getBaseAddressLeft' = getBaseAddressLeft
             /\ last'.err = "ok" => AudioIn_getBaseAddress' = a]_vars

(***************************************************************************)
(* Unit argument of the rate setter                                        *)
(***************************************************************************)
\* C26: setScheduleRate(rate, unit) with a unit that is none of hz, video
\* and nano (in any case of letters) is rejected and leaves the rate and the
\* unit as they were.
C26_UnitClosedSet ==
    [][\A v \in {DacMaxHz - 1, DacMaxHz}, u \in UnitArgs :
          (/\ last'.op = "setScheduleRate"
           /\ Upper(u) \notin {K_HZ, K_VIDEO, K_NANO}
           /\ setScheduleRate(v, u))
          => /\ last'.err # "ok"
             /\ getScheduleRate' = getScheduleRate
             /\ getScheduleUnit' = getScheduleUnit]_vars

C28_WriteBeforeRead ==
    [][(last'.op = "updateRegisterCache" /\ updateRegisterCache)
          => /\ \A r \in dirty : cache'[r] = cache[r] /\ dev'[r] = cache[r]
             /\ \A r \in DOMAIN dev \ dirty :
                    cache'[r] = dev[r] /\ dev'[r] = dev[r]
             /\ dirty' = {}]_vars

\* a refresh has run after a schedule was set in the cache only: cache and
\* device both hold the rate and the count that were set
C28_Witness ==
    /\ last.op = "updateRegisterCache"
    /\ cache.rate = 1000 /\ dev.rate = 1000
    /\ cache.count = MaxCount /\ dev.count = MaxCount
    /\ dirty = {}
    /\ sstate = "Armed"

(***************************************************************************)
(* Schedule shortcut                                                       *)
(***************************************************************************)
\* C29: DPxSetDacSched(onset, rate, unit, count) is accepted exactly when
\* the setters of onset, rate with unit, and count would all be accepted,
\* and then leaves onset, rate, unit and count in the cache as those three
\* setters would, with the count down mode enabled if and only if
\* count > 0; a call that is refused changes nothing.
C29_SchedShortcut ==
    [][\A o \in Onsets, v \in {DacMaxHz, DacMaxHz + 1}, c \in {0, MaxCount} :
          (last'.op = "DPxSetDacSched" /\ DPxSetDacSched(o, v, U_hz, c))
          => LET code == api_constants(UnitKey(U_hz)) IN
             /\ (last'.err = "ok") <=> OnsetRateCountOk(v, code)
             /\ last'.err = "ok"
                => /\ cache' = set(OnsetRateCount(cache, o, v, code, c),
                                   [countdown |-> (c > 0)])
                   /\ getScheduleCount' = c
                   /\ cache'.countdown <=> (c > 0)
             /\ last'.err # "ok" => cache' = cache /\ dirty' = dirty]_vars

\* the shortcut has replaced a schedule set register by register: onset,
\* rate, unit and count are those of the call and the count down mode,
\* which was off, is on
C29_Witness ==
    /\ last.op = "DPxSetDacSched"
    /\ last.err = "ok"
    /\ cache.onset = 1
    /\ cache.rate = DacMaxHz /\ cache.unit = RATE_HZ
    /\ cache.count = MaxCount
    /\ cache.countdown
    /\ dev.onset = 0 /\ ~dev.countdown

(***************************************************************************)
(* Commit at the vertical sync                                             *)
(***************************************************************************)
\* C30: a commit for the vertical sync leaves every device register as it
\* was and the dirty registers held with their cached values; a device
\* register changes only at the vertical sync pulse, and at the pulse the
\* registers that are held, and no others, take the values held for them.
C30_AtVerticalSync ==
    [][/\ (last'.op = "writeRegisterCacheAfterVideoSync"
           /\ DPxWriteRegCacheAfterVideoSync)
          => /\ dev' = dev
             /\ \A r \in dirty : r \in pending'.regs
                                 /\ pending'.image[r] = cache[r]
             /\ dirty' = {}
       /\ \A r \in DOMAIN dev :
             dev'[r] # dev[r]
             => /\ VSync
                /\ r \in pending.regs
                /\ dev'[r] = pending.image[r]
       /\ VSync => /\ \A r \in pending.regs : dev'[r] = pending.image[r]
                   /\ \A r \in DOMAIN dev \ pending.regs : dev'[r] = dev[r]
                   /\ pending'.regs = {}]_vars

\* a buffer base was committed for the vertical sync and the pulse has not
\* come: the cache holds the new base, nothing is dirty, the device still
\* has the old one
C30_Witness ==
    /\ last.op = "writeRegisterCacheAfterVideoSync"
    /\ "base" \in pending.regs
    /\ pending.image.base = 2
    /\ cache.base = 2
    /\ dev.base = 0
    /\ dirty = {}

(***************************************************************************)
(* Channel mask and schedule state                                         *)
(***************************************************************************)
\* C31: setChannelRamBuffering (one channel or all, enabling or disabling)
\* never changes the ScheduleState, and DPxSetDacSched, startSchedule,
\* stopSchedule and the ticks of the device, the last one of a count down
\* included, never change the channel mask the host reads; the mask of the
\* device changes only to the mask of the host, when startSchedule commits.
C31_MaskIndependent ==
    [][/\ (/\ last'.op = "setChannelRamBuffering"
           /\ \E b \in BOOLEAN, ch \in {None, 0, DPX_DAC_NCHANS} :
                 setChannelRamBuffering(b, ch))
          => /\ sstate' = sstate
             /\ dev'.running = dev.running
             /\ run' = run
       /\ (\/ /\ last'.op = "DPxSetDacSched"
              /\ DPxSetDacSched(0, DacMaxHz, U_hz, 1)
           \/ last'.op = "startSchedule" /\ startSchedule
           \/ last'.op = "stopSchedule" /\ stopSchedule
           \/ dev.running /\ Tick)
          => /\ \A ch \in DacChannels :
                   isChannelRamBuffering(ch)' = isChannelRamBuffering(ch)
             /\ dev'.mask \in {dev.mask, cache.mask}]_vars

\* a count down has run to its end with every channel enabled before the
\* start and one disabled after it: the schedule is Idle again and
\* the host reads the mask as the last mask call left it
C31_Witness ==
    /\ sstate = "Idle"
    /\ ~run.free /\ ~run.stopped /\ run.ticks = 1
    /\ ~dev.running
    /\ dev.mask = DacChannels
    /\ cache.mask = DacChannels \ {0}
    /\ last.op = "setChannelRamBuffering"

(***************************************************************************)
(* Construction of a device object                                         *)
(***************************************************************************)
\* C32: the construction of a device object raises 'No device found' if and
\* only if its own DPxOpen failed, whatever error code an earlier call has
\* left in the library.
C32_RaisesIffOpenFailed ==
    [][\A d \in DeviceTypes, found \in BOOLEAN :
          (last'.op = "DpxDevice" /\ DpxDevice_init(d, found))
          => (last'.err = "NoDeviceFound" <=> ~found)]_vars

(***************************************************************************)
(* The active device object                                                *)
(***************************************************************************)
\* C33: at most one device object reports isActive() = True, and the
\* device_type of that object is the device selected on the link.
C33_OneActive ==
    /\ Cardinality({o \in objects : isActive(o)}) <= 1
    /\ \A o \in objects : isActive(o) => DevCode(o) = selected

(***************************************************************************)
(* Byte count of a RAM transfer                                            *)
(***************************************************************************)
\* C34: the byte count handed to the device by readRam and by writeRam is
\* twice the number of 16-bit words asked for, for every length.
C34_ByteCount ==
    xfer.op \in {"read", "write"} => xfer.bytes = 2 * xfer.words

(***************************************************************************)
(* Data unit                                                               *)
(***************************************************************************)
\* C35: setDataUnit(u) with u equal to 'Dec' or 'Hex' in any case of
\* letters makes getDataUnit() return u; with any other u it leaves the
\* data unit as it was.
C35_DataUnit ==
    [][\A u \in DataUnits, same \in BOOLEAN :
          (last'.op = "setDataUnit" /\ setDataUnit(u, same))
          => IF Lower(u) \in {<<"d", "e", "c">>, <<"h", "e", "x">>}
             THEN getDataUnit' = u
             ELSE getDataUnit' = getDataUnit]_vars

(***************************************************************************)
(* Codec volume                                                            *)
(***************************************************************************)
\* C36: setCodecVolumeRight(volume, unit) sets the codec volume of the
\* right channel and leaves that of the left channel as it was.
C36_RightOnly ==
    [][\A v \in Volumes, u \in {0, 1} :
          (last'.op = "setCodecVolumeRight" /\ setCodecVolumeRight(v, u))
          => /\ getCodecVolumeRight' = <<v, u>>
             /\ getCodecVolumeLeft' = getCodecVolumeLeft]_vars

(***************************************************************************)
(* RatcaveApp: the current virtual scene                                   *)
(***************************************************************************)
\* C37: current_vr_scene is None or one of vr_scenes after every sequence
\* of register_vr_scene calls and current_vr_scene assignments; the
\* assignment of a scene that is not registered raises ValueError and
\* leaves current_vr_scene as it was.
C37_CurrentRegistered ==
    [][/\ current_vr_scene' = None \/ current_vr_scene' \in vr_scenes'
       /\ \A sc \in Scenes :
             (/\ last'.op = "current_vr_scene"
              /\ sc \notin vr_scenes
              /\ set_current_vr_scene(sc))
             => /\ last'.err = "ValueError"
                /\ current_vr_scene' = current_vr_scene
                /\ vr_scenes' = vr_scenes]_vars

\* with two scenes registered and the first made current again, the
\* assignment of the third, which is not registered, has been refused
C37_Witness ==
    /\ last.op = "current_vr_scene"
    /\ last.err = "ValueError"
    /\ vr_scenes = {1, 2}
    /\ current_vr_scene = 1

(***************************************************************************)
(* 32-bit registers                                                        *)
(***************************************************************************)
\* C38: DPxSetReg32(addr, v) followed by DPxGetReg32(addr) returns v, for
\* every value v of 32 bits.
C38_Reg32RoundTrip ==
    [][\A v \in RegValues :
          (last'.op = "DPxSetReg32" /\ DPxSetReg32(0, v))
          => DPxGetReg32(0)' = v]_vars

====
